---- MODULE Spec2Model ----
(***************************************************************************)
(* Beam search for sorting networks (jukofyork/SortingNetworks).           *)
(*                                                                         *)
(* The module models the knowledge-state machine of src/state.h (an        *)
(* intrusive linked list of the unsorted 0/1 patterns), the read-only      *)
(* lookup tables of src/lookup.h, the canonical hash of                    *)
(* src/normalization.h and the level-synchronous beam search of            *)
(* src/search.h.                                                           *)
(***************************************************************************)
EXTENDS Integers, Sequences, FiniteSets, TLC

(***************************************************************************)
(* Bounds of the model.                                                    *)
(***************************************************************************)
\* largest net size explored by the state-machine specification
MaxNetSize == 3
\* largest number of comparators applied to one State object
MaxLevel == 4
\* largest net size given to beam_search
MaxSearchNetSize == 4
\* largest max_beam_size given to beam_search
MaxBeam == 2
\* largest num_scoring_iterations given to beam_search
MaxTests == 2
\* number of OpenMP threads of the parallel regions
NumThreads == 2

(***************************************************************************)
(* Program constants.                                                      *)
(***************************************************************************)
END_OF_LIST == -1

VARIABLES
    net_size,       \* Config::net_size_
    used_list,      \* State::used_list   (slot -> ListElement)
    first_used,     \* State::first_used
    num_unsorted,   \* State::num_unsorted
    operations,     \* State::operations  (index -> Operation), fixed capacity
    current_level,  \* State::current_level
    started,        \* the caller has run set_start_state on this object
    fault           \* outcome of an out-of-bounds access ("none" when there was none)

state_vars == <<used_list, first_used, num_unsorted, operations, current_level>>

VARIABLES
    max_beam_size,          \* Config::max_beam_size_
    use_symmetry,           \* Config::use_symmetry_heuristic_
    num_scoring_iterations, \* Config::num_scoring_iterations_
    beam,                   \* BeamSearchContext::beam       (row -> index -> Operation)
    temp_beam,              \* BeamSearchContext::temp_beam
    beam_successors,        \* BeamSearchContext::beam_successors
    candidates,             \* BeamSearchContext::candidates
    current_beam_size,      \* BeamSearchContext::current_beam_size
    level,                  \* beam_search: the loop variable level
    completed_index,        \* beam_search: completed_index
    active_indices,         \* beam_search: active_indices, as the set the next sort reorders
    tests_per_candidate,    \* beam_search: tests_per_candidate
    score_tests_run,        \* rollouts requested from score_state at this level
    next_iteration,         \* the next unclaimed iteration of the omp for loop
    thread_pc,              \* thread -> its position in the parallel region
    thread_i,               \* thread -> the iteration i it runs
    local_candidates,       \* thread -> its thread_local local_candidates
    returned,               \* the return value of beam_search (-1 before it returns)
    pc                      \* the position of beam_search ("idle": not called)

search_vars == <<max_beam_size, use_symmetry, num_scoring_iterations, beam, temp_beam,
                 beam_successors, candidates, current_beam_size, level,
                 completed_index, active_indices, tests_per_candidate,
                 score_tests_run, next_iteration, thread_pc, thread_i,
                 local_candidates, returned, pc>>

VARIABLES
    arg_ops,        \* the comparator sequence handed to a function under test
    arg_pattern,    \* the bit pattern handed to a function under test
    fn_value,       \* what the function returned
    fn_pc           \* "idle": no function under test; "drawn"; "applied"

pure_vars == <<arg_ops, arg_pattern, fn_value, fn_pc>>

VARIABLES
    max_iterations,  \* Config::max_iterations
    iteration,       \* main: the loop counter
    exit_flag,       \* the flag signal_handler sets
    length,          \* main: the length the last search returned
    depth,           \* main: get_depth of the last result
    main_level,      \* the level the running search has reached
    main_pc,         \* "idle", "loop", "search", "report", "finish", "exited"
    exit_code,       \* the exit status of the process, -1 while it runs
    searches,        \* history: calls of beam_search
    reported,        \* history: calls of print_results
    sigints          \* history: deliveries of SIGINT

main_vars == <<max_iterations, iteration, exit_flag, length, depth, main_level,
               main_pc, exit_code, searches, reported, sigints>>

vars == <<max_iterations, iteration, exit_flag, length, depth, main_level,
         main_pc, exit_code, searches, reported, sigints,
         arg_ops, arg_pattern, fn_value, fn_pc, net_size, used_list, first_used, num_unsorted, operations, current_level,
         started, fault, max_beam_size, use_symmetry, num_scoring_iterations, beam,
         temp_beam, beam_successors, candidates, current_beam_size, level,
         completed_index, active_indices, tests_per_candidate, score_tests_run,
         next_iteration, thread_pc, thread_i, local_candidates, returned, pc>>

(***************************************************************************)
(* Config (src/config.h, Config::initialize).                              *)
(***************************************************************************)
get_bounds_length(n) ==
    CASE n = 2 -> 1   [] n = 3 -> 3   [] n = 4 -> 5   [] n = 5 -> 9
      [] n = 6 -> 12  [] n = 7 -> 16  [] n = 8 -> 19  [] n = 9 -> 25
      [] n = 10 -> 29 [] n = 11 -> 35 [] n = 12 -> 39 [] n = 13 -> 45
      [] n = 14 -> 51 [] n = 15 -> 56 [] n = 16 -> 60 [] n = 17 -> 71
      [] n = 18 -> 77 [] n = 19 -> 85 [] n = 20 -> 91 [] n = 21 -> 99
      [] n = 22 -> 106 [] n = 23 -> 114 [] n = 24 -> 120 [] n = 25 -> 130
      [] n = 26 -> 138 [] n = 27 -> 147 [] n = 28 -> 155 [] n = 29 -> 164
      [] n = 30 -> 172 [] n = 31 -> 180 [] n = 32 -> 185
      [] OTHER -> 0

get_length_lower_bound(n) == get_bounds_length(n)

get_length_upper_bound(n) == get_length_lower_bound(n) * 2

get_num_input_patterns(n) == 2 ^ n

NetSizes == 2 .. MaxNetSize

Patterns(n) == 0 .. get_num_input_patterns(n) - 1

\* the comparators (op1 < op2) of an n-wire network
Comparators(n) == {c \in (0 .. n - 1) \X (0 .. n - 1) : c[1] < c[2]}

(***************************************************************************)
(* Bit arithmetic on patterns.                                             *)
(***************************************************************************)
\* (pattern >> i) & 1
Bit(p, i) == (p \div (2 ^ i)) % 2

\* a variant of SetBit that leaves the bit as it is
SetBit_skipped(p, i) == p

\* pattern |= (1 << i)
SetBit(p, i) == IF Bit(p, i) = 1 THEN p ELSE p + 2 ^ i

\* a variant of ClearBit that leaves the bit as it is
ClearBit_skipped(p, i) == p

\* pattern &= ~(1 << i)
ClearBit(p, i) == IF Bit(p, i) = 1 THEN p - 2 ^ i ELSE p

(***************************************************************************)
(* Lookup tables (src/lookup.h).                                           *)
(***************************************************************************)
\* a variant of the loop of check_sorted that stops one wire early
RECURSIVE check_sorted_from_one_short(_, _, _)
check_sorted_from_one_short(v, n, i) ==
    IF i >= n - 2 THEN TRUE
    ELSE IF Bit(v, i) = 0 /\ Bit(v, i + 1) = 1 THEN FALSE
    ELSE check_sorted_from_one_short(v, n, i + 1)

RECURSIVE check_sorted_from(_, _, _)
check_sorted_from(v, n, i) ==
    IF i >= n - 1 THEN TRUE
    ELSE IF Bit(v, i) = 0 /\ Bit(v, i + 1) = 1 THEN FALSE
    ELSE check_sorted_from(v, n, i + 1)

check_sorted(v, n) == check_sorted_from(v, n, 0)

is_sorted(pattern) == check_sorted(pattern, net_size)

\* the inner two loops of LookupTables::initialize, in push_back order
RECURSIVE allowed_ops_from(_, _, _, _)
allowed_ops_from(p, n, n1, n2) ==
    IF n1 >= n - 1 THEN <<>>
    ELSE IF n2 >= n THEN allowed_ops_from(p, n, n1 + 1, n1 + 2)
    ELSE (IF Bit(p, n1) = 0 /\ Bit(p, n2) = 1
             THEN <<[op1 |-> n1, op2 |-> n2]>> ELSE <<>>)
         \o allowed_ops_from(p, n, n1, n2 + 1)

allowed_ops(pattern) == allowed_ops_from(pattern, net_size, 0, 1)

(***************************************************************************)
(* State (src/state.h).  A State object is the record                      *)
(* [used_list, first_used, num_unsorted, operations, current_level].       *)
(***************************************************************************)
\* State::State(config): both vectors are value-initialised by resize
NewState(n) ==
    [used_list     |-> [i \in Patterns(n) |-> [in_list |-> 0, bit_pattern |-> 0, next |-> 0]],
     first_used    |-> END_OF_LIST,
     num_unsorted  |-> 0,
     operations    |-> [k \in 0 .. get_length_upper_bound(n) - 1 |-> [op1 |-> 0, op2 |-> 0]],
     current_level |-> 0]

\* a variant of set_start_loop that relinks the unsorted slots without
\* rewriting the pattern they record
RECURSIVE set_start_loop_keeps_pattern(_, _)
set_start_loop_keeps_pattern(st, i) ==
    IF i >= get_num_input_patterns(net_size) THEN st
    ELSE IF is_sorted(i)
         THEN set_start_loop_keeps_pattern([st EXCEPT !.used_list[i].in_list = 0], i + 1)
         ELSE set_start_loop_keeps_pattern(
                [st EXCEPT !.used_list[i].in_list = 1,
                           !.used_list[i].next = st.first_used,
                           !.first_used = i],
                i + 1)

\* the for loop of set_start_state, from slot i on
RECURSIVE set_start_loop(_, _)
set_start_loop(st, i) ==
    IF i >= get_num_input_patterns(net_size) THEN st
    ELSE IF is_sorted(i)
         THEN set_start_loop([st EXCEPT !.used_list[i].in_list = 0], i + 1)
         ELSE set_start_loop(
                [st EXCEPT !.used_list[i] = [in_list |-> 1, bit_pattern |-> i,
                                             next |-> st.first_used],
                           !.first_used = i],
                i + 1)

\* a variant of set_start_state that subtracts n instead of n + 1
set_start_state_count_off_by_one(st) ==
    LET looped == set_start_loop([st EXCEPT !.first_used = END_OF_LIST], 0)
    IN [looped EXCEPT
          !.num_unsorted = get_num_input_patterns(net_size) - net_size,
          !.current_level = 0]

set_start_state(st) ==
    LET looped == set_start_loop([st EXCEPT !.first_used = END_OF_LIST], 0)
    IN [looped EXCEPT
          !.num_unsorted = get_num_input_patterns(net_size) - (net_size + 1),
          !.current_level = 0]

\* a variant of clear_source that leaves the source slot flagged
clear_source_kept(ul, pattern) == ul

\* used_list[pattern].in_list = 0: the old value of the node leaves the set
clear_source(ul, pattern) == [ul EXCEPT ![pattern].in_list = 0]

\* a variant of leaves_list that only tests for a duplicate
leaves_list_duplicate_only(ul, new_pattern) == ul[new_pattern].in_list = 1

\* a variant of leaves_list that only tests for a sorted value
leaves_list_sorted_only(ul, new_pattern) == is_sorted(new_pattern)

\* the node is unlinked when its new value is already listed or is sorted
leaves_list(ul, new_pattern) ==
    ul[new_pattern].in_list = 1 \/ is_sorted(new_pattern)

\* a variant of relocate that flags the new value but keeps the old one in the node
relocate_flag_only(ul, used_index, new_pattern) ==
    [ul EXCEPT ![new_pattern].in_list = 1]

\* the node stays at its slot and records the new value, whose slot is flagged
relocate(ul, used_index, new_pattern) ==
    LET ul2 == [ul EXCEPT ![new_pattern].in_list = 1]
    IN [ul2 EXCEPT ![used_index].bit_pattern = new_pattern]

\* the traversal of update_state, standing at used_index with last_index behind it
RECURSIVE update_loop(_, _, _, _, _)
update_loop(st, used_index, last_index, op1, op2) ==
    IF used_index = END_OF_LIST THEN st
    ELSE
      LET next_index == st.used_list[used_index].next
          pattern    == st.used_list[used_index].bit_pattern
      IN IF Bit(pattern, op1) = 0 /\ Bit(pattern, op2) = 1
         THEN
           LET ul1 == clear_source(st.used_list, pattern)
               new_pattern == ClearBit(SetBit(pattern, op1), op2)
           IN IF leaves_list(ul1, new_pattern)
              THEN update_loop(
                     [st EXCEPT
                        !.num_unsorted = @ - 1,
                        !.used_list = IF last_index # END_OF_LIST
                                         THEN [ul1 EXCEPT ![last_index].next = next_index]
                                         ELSE ul1,
                        !.first_used = IF last_index # END_OF_LIST THEN @ ELSE next_index],
                     next_index, last_index, op1, op2)
              ELSE
                LET ul3 == relocate(ul1, used_index, new_pattern)
                IN update_loop(
                     [st EXCEPT
                        !.used_list = IF last_index # END_OF_LIST
                                         THEN [ul3 EXCEPT ![last_index].next = used_index]
                                         ELSE ul3,
                        !.first_used = IF last_index # END_OF_LIST THEN @ ELSE used_index],
                     next_index, used_index, op1, op2)
         ELSE update_loop(st, next_index, used_index, op1, op2)

\* update_state while current_level is inside the operations vector
update_state(st, op1, op2) ==
    LET walked == update_loop(st, st.first_used, END_OF_LIST, op1, op2)
    IN [walked EXCEPT
          !.operations = IF st.current_level \in DOMAIN st.operations
                            THEN [@ EXCEPT ![st.current_level] = [op1 |-> op1, op2 |-> op2]]
                            ELSE @,
          !.current_level = @ + 1]

\* a variant of rand_int whose range has one more value at the top
rand_int_one_more(n) == IF n <= 0 THEN {0} ELSE 0 .. n + 1

\* rand_int(n): 0 when n <= 0, otherwise uniform over the closed range [0, n]
rand_int(n) == IF n <= 0 THEN {0} ELSE 0 .. n

\* the list walk of do_random_transition: the pattern of the node at position rand_index
RECURSIVE random_walk(_, _, _, _)
random_walk(st, i, n, rand_index) ==
    IF i = END_OF_LIST THEN 0
    ELSE IF n = rand_index THEN st.used_list[i].bit_pattern
    ELSE random_walk(st, st.used_list[i].next, n + 1, rand_index)

(***************************************************************************)
(* Canonical hash (src/normalization.h).  A comparator sequence is a       *)
(* sequence of Operation records; ops[1] is the C++ ops[0].                *)
(***************************************************************************)
Wires(n) == 0 .. n - 1

\* compute_bus_degrees: the number of comparators touching each wire
compute_bus_degrees(ops, n) ==
    [w \in Wires(n) |->
        Cardinality({i \in 1 .. Len(ops) : ops[i].op1 = w})
      + Cardinality({i \in 1 .. Len(ops) : ops[i].op2 = w})]

\* compute_neighbor_sums, from comparator i on
RECURSIVE neighbor_sums_from(_, _, _, _)
neighbor_sums_from(ops, degrees, sums, i) ==
    IF i > Len(ops) THEN sums
    ELSE LET s1 == [sums EXCEPT ![ops[i].op1] = @ + degrees[ops[i].op2]]
             s2 == [s1 EXCEPT ![ops[i].op2] = @ + degrees[ops[i].op1]]
         IN neighbor_sums_from(ops, degrees, s2, i + 1)

compute_neighbor_sums(ops, degrees, n) ==
    neighbor_sums_from(ops, degrees, [w \in Wires(n) |-> 0], 1)

\* the inner loop of compute_canonical_mapping: the best unassigned bus, as
\* <<best_bus, best_degree, best_neighbor_sum>>
RECURSIVE best_bus_from(_, _, _, _, _, _)
best_bus_from(degrees, sums, assigned, n, bus, best) ==
    IF bus >= n THEN best
    ELSE IF assigned[bus] THEN best_bus_from(degrees, sums, assigned, n, bus + 1, best)
    ELSE IF \/ degrees[bus] > best[2]
            \/ (degrees[bus] = best[2] /\ sums[bus] > best[3])
            \/ (degrees[bus] = best[2] /\ sums[bus] = best[3]
                  /\ (best[1] = -1 \/ bus < best[1]))
         THEN best_bus_from(degrees, sums, assigned, n, bus + 1,
                            <<bus, degrees[bus], sums[bus]>>)
         ELSE best_bus_from(degrees, sums, assigned, n, bus + 1, best)

\* the update of neighbor_sums after best_bus was assigned, from comparator i on
RECURSIVE lower_sums_from(_, _, _, _, _, _)
lower_sums_from(ops, sums, assigned, best_bus, best_degree, i) ==
    IF i > Len(ops) THEN sums
    ELSE IF ops[i].op1 = best_bus /\ ~assigned[ops[i].op2]
         THEN lower_sums_from(ops, [sums EXCEPT ![ops[i].op2] = @ - best_degree],
                              assigned, best_bus, best_degree, i + 1)
    ELSE IF ops[i].op2 = best_bus /\ ~assigned[ops[i].op1]
         THEN lower_sums_from(ops, [sums EXCEPT ![ops[i].op1] = @ - best_degree],
                              assigned, best_bus, best_degree, i + 1)
    ELSE lower_sums_from(ops, sums, assigned, best_bus, best_degree, i + 1)

INVALID_LABEL == 255

\* the greedy labelling loop of compute_canonical_mapping, from new_label on
RECURSIVE mapping_from(_, _, _, _, _, _, _)
mapping_from(ops, degrees, sums, assigned, mapping, n, new_label) ==
    IF new_label >= n THEN mapping
    ELSE LET best == best_bus_from(degrees, sums, assigned, n, 0, <<-1, -1, -1>>)
         IN IF best[1] >= 0
            THEN LET assigned2 == [assigned EXCEPT ![best[1]] = TRUE]
                 IN mapping_from(ops, degrees,
                                 lower_sums_from(ops, sums, assigned2, best[1], best[2], 1),
                                 assigned2,
                                 [mapping EXCEPT ![best[1]] = new_label],
                                 n, new_label + 1)
            ELSE mapping_from(ops, degrees, sums, assigned, mapping, n, new_label + 1)

compute_canonical_mapping(ops, n) ==
    LET degrees == compute_bus_degrees(ops, n)
    IN mapping_from(ops, degrees, compute_neighbor_sums(ops, degrees, n),
                    [w \in Wires(n) |-> FALSE], [w \in Wires(n) |-> INVALID_LABEL], n, 0)

\* apply_canonical_mapping: relabel and restore op1 < op2
apply_canonical_mapping(ops, mapping) ==
    [i \in 1 .. Len(ops) |->
        LET new_op1 == mapping[ops[i].op1]
            new_op2 == mapping[ops[i].op2]
        IN IF new_op1 > new_op2 THEN [op1 |-> new_op2, op2 |-> new_op1]
                                ELSE [op1 |-> new_op1, op2 |-> new_op2]]

\* the inner loop of normalize_operation_order: the comparators from j on whose
\* wires are still free in the layer being built
RECURSIVE collect_layer(_, _, _, _)
collect_layer(ops, j, layer, used) ==
    IF j > Len(ops) THEN layer
    ELSE IF ops[j].op1 \notin used /\ ops[j].op2 \notin used
         THEN collect_layer(ops, j + 1, Append(layer, ops[j]),
                            used \cup {ops[j].op1, ops[j].op2})
         ELSE collect_layer(ops, j + 1, layer, used)

\* the comparator order of std::sort in normalize_operation_order
op_less(a, b) == a.op1 < b.op1 \/ (a.op1 = b.op1 /\ a.op2 < b.op2)

\* std::sort of one layer
RECURSIVE sort_layer(_)
sort_layer(layer) ==
    IF Len(layer) <= 1 THEN layer
    ELSE LET least == CHOOSE k \in 1 .. Len(layer) :
                        \A m \in 1 .. Len(layer) : ~op_less(layer[m], layer[k])
         IN <<layer[least]>> \o
            sort_layer([m \in 1 .. Len(layer) - 1 |->
                          IF m < least THEN layer[m] ELSE layer[m + 1]])

\* the outer loop of normalize_operation_order at position i (1-based), with the
\* sorted layers flattened so far
RECURSIVE layers_from(_, _, _)
layers_from(ops, i, flat) ==
    IF i > Len(ops) THEN flat
    ELSE LET layer == collect_layer(ops, i, <<>>, {})
         IN IF Len(layer) = 0
            THEN layers_from(ops, i + 1, flat \o <<ops[i]>>)
            ELSE layers_from(ops, i + Len(layer), flat \o sort_layer(layer))

normalize_operation_order(ops) == layers_from(ops, 1, <<>>)

canonical_normalize(ops, n) ==
    IF Len(ops) <= 0 THEN ops
    ELSE normalize_operation_order(
           apply_canonical_mapping(ops, compute_canonical_mapping(ops, n)))

(***************************************************************************)
(* FNV-1a over 64 bits, kept as four 16-bit limbs, least significant first. *)
(***************************************************************************)
Limb == 2 ^ 16

\* 14695981039346656037 = 0xcbf29ce484222325
FNV_OFFSET == <<8997, 33826, 40164, 52210>>

\* bitwise exclusive or of two naturals
RECURSIVE BitXor(_, _)
BitXor(a, b) ==
    IF a = 0 THEN b
    ELSE IF b = 0 THEN a
    ELSE (((a % 2) + (b % 2)) % 2) + 2 * BitXor(a \div 2, b \div 2)

\* hash ^= byte
hash_xor(h, byte) == [h EXCEPT ![1] = BitXor(@, byte)]

\* hash *= 1099511628211 (2^40 + 435), modulo 2^64
hash_mul_prime(h) ==
    LET a1 == h[1] * 435
        a2 == h[2] * 435 + (a1 \div Limb)
        a3 == h[3] * 435 + (a2 \div Limb) + ((h[1] * 256) % Limb)
        a4 == h[4] * 435 + (a3 \div Limb) + ((h[2] * 256) % Limb) + ((h[1] * 256) \div Limb)
    IN <<a1 % Limb, a2 % Limb, a3 % Limb, a4 % Limb>>

RECURSIVE fnv1a_from(_, _, _)
fnv1a_from(ops, i, h) ==
    IF i > Len(ops) THEN h
    ELSE fnv1a_from(ops, i + 1,
           hash_mul_prime(hash_xor(hash_mul_prime(hash_xor(h, ops[i].op1)), ops[i].op2)))

fnv1a_hash(ops) == fnv1a_from(ops, 1, FNV_OFFSET)

\* compute_canonical_hash; 0 for an empty sequence
compute_canonical_hash(ops, n) ==
    IF Len(ops) <= 0 THEN <<0, 0, 0, 0>>
    ELSE fnv1a_hash(canonical_normalize(ops, n))

(***************************************************************************)
(* The State object under test.                                            *)
(***************************************************************************)
S == [used_list |-> used_list, first_used |-> first_used,
      num_unsorted |-> num_unsorted, operations |-> operations,
      current_level |-> current_level]

length_upper_bound == get_length_upper_bound(net_size)

\* assign the State object
SetS(st) ==
    /\ used_list' = st.used_list
    /\ first_used' = st.first_used
    /\ num_unsorted' = st.num_unsorted
    /\ operations' = st.operations
    /\ current_level' = st.current_level

\* one call of update_state(op1, op2) on the object.  operations has
\* length_upper_bound elements and operator[] is unchecked: at
\* current_level = length_upper_bound the store is out of bounds, and the
\* build either dies on it or carries on with the counter incremented.
ApplyStep(op1, op2) ==
    IF current_level < length_upper_bound
    THEN /\ SetS(update_state(S, op1, op2))
         /\ fault' = "none"
    ELSE \/ /\ SetS(update_state(S, op1, op2))
            /\ fault' = "overrun"
         \/ /\ UNCHANGED state_vars
            /\ fault' = "crash"

SetStartState ==
    /\ fault = "none"
    /\ SetS(set_start_state(S))
    /\ started' = TRUE
    /\ UNCHANGED <<main_vars, pure_vars, net_size, fault>>
    /\ UNCHANGED search_vars

UpdateState(op1, op2) ==
    /\ fault = "none"
    /\ started
    /\ current_level < MaxLevel
    /\ ApplyStep(op1, op2)
    /\ UNCHANGED <<main_vars, pure_vars, net_size, started>>
    /\ UNCHANGED search_vars

\* the allowed_ops vector of the pattern that the draw rand_index selects
drawn_allowed(rand_index) == allowed_ops(random_walk(S, first_used, 0, rand_index))

\* allowed[rand_op] over the draws of rand_index and of rand_op that index an
\* element of the vector
drawn_operations ==
    UNION {{drawn_allowed(rand_index)[rand_op + 1] :
              rand_op \in {k \in rand_int(Len(drawn_allowed(rand_index)) - 1) :
                             k < Len(drawn_allowed(rand_index))}} :
           rand_index \in rand_int(num_unsorted - 1)}

\* some draw of rand_op indexes past the end of the vector
drawn_out_of_range ==
    \E rand_index \in rand_int(num_unsorted - 1) :
       \E rand_op \in rand_int(Len(drawn_allowed(rand_index)) - 1) :
          rand_op >= Len(drawn_allowed(rand_index))

DoRandomTransition ==
    /\ fault = "none"
    /\ started
    /\ current_level < MaxLevel
    /\ num_unsorted > 0
    /\ \/ \E op \in drawn_operations : ApplyStep(op.op1, op.op2)
       \/ /\ drawn_out_of_range
          /\ UNCHANGED state_vars
          /\ fault' = "crash"
    /\ UNCHANGED <<main_vars, pure_vars, net_size, started>>
    /\ UNCHANGED search_vars

\* beam_search is not called: its variables are at rest
SearchIdle ==
    /\ max_beam_size = 1
    /\ use_symmetry = FALSE
    /\ num_scoring_iterations = 1
    /\ beam = <<>>
    /\ temp_beam = <<>>
    /\ beam_successors = <<>>
    /\ candidates = <<>>
    /\ current_beam_size = 1
    /\ level = 0
    /\ completed_index = -1
    /\ active_indices = {}
    /\ tests_per_candidate = 0
    /\ score_tests_run = 0
    /\ next_iteration = 0
    /\ thread_pc = <<>>
    /\ thread_i = <<>>
    /\ local_candidates = <<>>
    /\ returned = -1
    /\ pc = "idle"

\* main is not running
MainIdle ==
    /\ max_iterations = 1
    /\ iteration = 0
    /\ exit_flag = FALSE
    /\ length = 0
    /\ depth = 0
    /\ main_level = 0
    /\ main_pc = "idle"
    /\ exit_code = -1
    /\ searches = 0
    /\ reported = 0
    /\ sigints = 0

\* no function is under test
PureIdle ==
    /\ arg_ops = <<>>
    /\ arg_pattern = 0
    /\ fn_value = <<>>
    /\ fn_pc = "idle"

Init ==
    /\ net_size \in NetSizes
    /\ SearchIdle
    /\ PureIdle
    /\ MainIdle
    /\ used_list = NewState(net_size).used_list
    /\ first_used = NewState(net_size).first_used
    /\ num_unsorted = NewState(net_size).num_unsorted
    /\ operations = NewState(net_size).operations
    /\ current_level = NewState(net_size).current_level
    /\ started = FALSE
    /\ fault = "none"

Next ==
    \/ SetStartState
    \/ \E c \in Comparators(net_size) : UpdateState(c[1], c[2])
    \/ DoRandomTransition

Spec == Init /\ [][Next]_vars

(***************************************************************************)
(* beam_search (src/search.h).                                             *)
(***************************************************************************)
Threads == 1 .. NumThreads

\* beam.assign(max_beam_size, std::vector<Operation>(max_ops))
NewBeam(n, width) ==
    [i \in 0 .. width - 1 |->
        [j \in 0 .. get_length_upper_bound(n) - 1 |-> [op1 |-> 0, op2 |-> 0]]]

\* update_state over row[j .. len - 1], as in the replay loops
RECURSIVE replay_from(_, _, _, _)
replay_from(st, row, j, len) ==
    IF j >= len THEN st
    ELSE replay_from(update_state(st, row[j].op1, row[j].op2), row, j + 1, len)

\* a variant of reconstruct_state that replays one cell more than len
reconstruct_state_past_level(row, len) ==
    replay_from(set_start_state(NewState(net_size)), row, 0, len + 1)

\* thread_state after set_start_state and the replay of the first len
\* comparators of row
reconstruct_state(row, len) ==
    replay_from(set_start_state(NewState(net_size)), row, 0, len)

\* a variant of find_successors_from that looks at the node i only
find_successors_from_head_only(ul, i, succ_ops) ==
    IF i = END_OF_LIST THEN succ_ops
    ELSE succ_ops \cup {c \in Comparators(net_size) :
                          Bit(ul[i].bit_pattern, c[1]) = 0
                          /\ Bit(ul[i].bit_pattern, c[2]) = 1}

\* find_successors: the pairs (n1, n2) with succ_ops[n1][n2] = 1, from node i on
RECURSIVE find_successors_from(_, _, _)
find_successors_from(ul, i, succ_ops) ==
    IF i = END_OF_LIST THEN succ_ops
    ELSE find_successors_from(ul, ul[i].next,
            succ_ops \cup {c \in Comparators(net_size) :
                             Bit(ul[i].bit_pattern, c[1]) = 0
                             /\ Bit(ul[i].bit_pattern, c[2]) = 1})

find_successors(st) == find_successors_from(st.used_list, st.first_used, {})

\* the matrix succ_ops as find_successors leaves it: every cell zeroed, then the
\* cells of the pairs found set to 1
succ_ops_matrix(st) ==
    [n1 \in Wires(net_size) |->
       [n2 \in Wires(net_size) |->
          IF <<n1, n2>> \in find_successors(st) THEN 1 ELSE 0]]

\* a variant of count_allowed that counts the cells of row 0 only
count_allowed_first_row(succ_ops) ==
    Cardinality({c \in Comparators(net_size) : c[1] = 0 /\ succ_ops[c[1]][c[2]] = 1})

\* the counting loop of find_successors over the cells n1 < n2
count_allowed(succ_ops) ==
    Cardinality({c \in Comparators(net_size) : succ_ops[c[1]][c[2]] = 1})

\* the first len comparators of a beam row, as a sequence
row_prefix(row, len) == [k \in 1 .. len |-> row[k - 1]]

\* build_operation_sequence: the canonical hash of row[0 .. lvl - 1] + (op1, op2)
build_operation_sequence(row, lvl, new_op1, new_op2) ==
    compute_canonical_hash(
        Append(row_prefix(row, lvl), [op1 |-> new_op1, op2 |-> new_op2]), net_size)

CandidateSuccessor(i, row, lvl, n1, n2) ==
    [beam_index |-> i, op1 |-> n1, op2 |-> n2,
     canonical_hash |-> build_operation_sequence(row, lvl, n1, n2)]

\* the nested n1, n2 loops that collect the valid successors, from (n1, n2) on
RECURSIVE collect_successors(_, _, _, _, _, _)
collect_successors(i, row, lvl, succ_ops, n1, n2) ==
    IF n1 >= net_size - 1 THEN <<>>
    ELSE IF n2 >= net_size THEN collect_successors(i, row, lvl, succ_ops, n1 + 1, n1 + 2)
    ELSE IF <<n1, n2>> \in succ_ops
         THEN <<CandidateSuccessor(i, row, lvl, n1, n2)>>
              \o collect_successors(i, row, lvl, succ_ops, n1, n2 + 1)
         ELSE collect_successors(i, row, lvl, succ_ops, n1, n2 + 1)

\* variant: the mirror is taken without the test that it lies on other wires
mirror_applies_any_wires(row, lvl, succ_ops) ==
    /\ use_symmetry
    /\ lvl >= 1
    /\ <<(net_size - 1) - row[lvl - 1].op2, (net_size - 1) - row[lvl - 1].op1>> \in succ_ops

\* the symmetry heuristic takes the mirror image of the last comparator
mirror_applies(row, lvl, succ_ops) ==
    /\ use_symmetry
    /\ lvl >= 1
    /\ LET n1 == row[lvl - 1].op1
           n2 == row[lvl - 1].op2
       IN /\ n1 # (net_size - 1) - n1
          /\ n1 # (net_size - 1) - n2
          /\ n2 # (net_size - 1) - n1
          /\ n2 # (net_size - 1) - n2
          /\ <<(net_size - 1) - n2, (net_size - 1) - n1>> \in succ_ops

\* what one iteration of the collection loop pushes to local_candidates
entry_candidates(i, row, lvl, succ_ops) ==
    IF mirror_applies(row, lvl, succ_ops)
    THEN <<CandidateSuccessor(i, row, lvl, (net_size - 1) - row[lvl - 1].op2,
                                           (net_size - 1) - row[lvl - 1].op1)>>
    ELSE collect_successors(i, row, lvl, succ_ops, 0, 1)

\* variant: candidates are told apart by their comparator instead of their hash
RECURSIVE deduplicate_from_by_operation(_, _, _, _)
deduplicate_from_by_operation(cands, i, hashes, unique) ==
    IF i > Len(cands) THEN unique
    ELSE IF <<cands[i].beam_index, cands[i].op1, cands[i].op2>> \in hashes
         THEN deduplicate_from_by_operation(cands, i + 1, hashes, unique)
         ELSE deduplicate_from_by_operation(cands, i + 1,
                 hashes \cup {<<cands[i].beam_index, cands[i].op1, cands[i].op2>>},
                 Append(unique, cands[i]))

\* the try_emplace loop: the first candidate of every canonical_hash, in order
RECURSIVE deduplicate_from(_, _, _, _)
deduplicate_from(cands, i, hashes, unique) ==
    IF i > Len(cands) THEN unique
    ELSE IF cands[i].canonical_hash \in hashes
         THEN deduplicate_from(cands, i + 1, hashes, unique)
         ELSE deduplicate_from(cands, i + 1, hashes \cup {cands[i].canonical_hash},
                               Append(unique, cands[i]))

deduplicate(cands) == deduplicate_from(cands, 1, {}, <<>>)

\* ceil(log2(initial_count / max_beam)): the least r with max_beam * 2^r >= initial_count
RECURSIVE num_rounds_from(_, _, _)
num_rounds_from(initial_count, width, r) ==
    IF width * (2 ^ r) >= initial_count THEN r
    ELSE num_rounds_from(initial_count, width, r + 1)

num_rounds(initial_count, width) == num_rounds_from(initial_count, width, 0)

\* ceil(base_num_tests / num_rounds)
initial_tests_per_candidate(base_num_tests, rounds) ==
    (base_num_tests + rounds - 1) \div rounds

\* a variant of copy_candidates_to_successors that names beam entry 0 as the
\* parent of every successor
copy_candidates_first_parent(cands, order) ==
    [k \in 1 .. Len(order) |->
        [beam_index |-> 0,
         operation |-> [op1 |-> cands[order[k] + 1].op1, op2 |-> cands[order[k] + 1].op2]]]

\* copy_candidates_to_successors of candidates[cand_idx] for the cand_idx of
\* order (the score field is not modelled)
copy_candidates_to_successors(cands, order) ==
    [k \in 1 .. Len(order) |->
        [beam_index |-> cands[order[k] + 1].beam_index,
         operation |-> [op1 |-> cands[order[k] + 1].op1, op2 |-> cands[order[k] + 1].op2]]]

\* variant: the selection may take the same candidate twice
sorted_prefixes_with_repeats(active, count) == [1 .. count -> active]

\* std::sort by score, over every outcome of the scoring: the possible first
\* count entries of active_indices after the sort
sorted_prefixes(active, count) ==
    {order \in [1 .. count -> active] :
        \A a, b \in 1 .. count : a # b => order[a] # order[b]}

\* the possible sets of the first count entries after the sort
sorted_prefix_sets(active, count) ==
    {kept \in SUBSET active : Cardinality(kept) = count}

\* a variant of score_ordered that ignores the scores
score_ordered_any(sc, a, b) == TRUE

\* the order std::sort leaves with the comparator scores[a] < scores[b]:
\* b does not come before a when its score is higher
score_ordered(sc, a, b) == sc[a] <= sc[b]

\* the possible first count entries of active_indices after the sort by sc
sort_by_score(active, sc, count) ==
    {order \in sorted_prefixes(active, count) :
        /\ \A a, b \in 1 .. count : a < b => score_ordered(sc, order[a], order[b])
        /\ \A a \in 1 .. count : \A c \in active \ {order[k] : k \in 1 .. count} :
              score_ordered(sc, order[a], c)}

\* the possible sets of the first count entries after the sort by sc
sort_by_score_sets(active, sc, count) ==
    {kept \in sorted_prefix_sets(active, count) :
        \A a \in kept : \A c \in active \ kept : score_ordered(sc, a, c)}

Min(a, b) == IF a < b THEN a ELSE b

max_ops == get_length_upper_bound(net_size)

\* the top of the level loop
BeginLevel ==
    /\ pc = "level"
    /\ beam_successors' = <<>>
    /\ candidates' = <<>>
    /\ completed_index' = -1
    /\ next_iteration' = 0
    /\ thread_pc' = [t \in Threads |-> "loop"]
    /\ thread_i' = [t \in Threads |-> 0]
    /\ local_candidates' = [t \in Threads |-> <<>>]
    /\ score_tests_run' = 0
    /\ pc' = "collect"
    /\ UNCHANGED <<main_vars, pure_vars, net_size, state_vars, started, fault, max_beam_size, use_symmetry,
                   num_scoring_iterations, beam, temp_beam, current_beam_size, level,
                   active_indices, tests_per_candidate, returned>>

\* a variant of publish_completion without the test of completed_index
publish_completion_unchecked(completed, i) == i

\* the critical section of a terminal entry:
\* if (completed_index == -1) completed_index = i
publish_completion(completed, i) == IF completed = -1 THEN i ELSE completed

\* a thread takes the next iteration of the omp for loop and reads
\* completed_index.  The read is outside the critical section that writes it:
\* after the write the thread sees either the index written or the -1 from
\* before it
ClaimIteration(t) ==
    /\ pc = "collect"
    /\ thread_pc[t] = "loop"
    /\ next_iteration < current_beam_size
    /\ next_iteration' = next_iteration + 1
    /\ \/ /\ completed_index # -1
          /\ UNCHANGED <<thread_pc, thread_i>>
       \/ /\ thread_pc' = [thread_pc EXCEPT ![t] = "work"]
          /\ thread_i' = [thread_i EXCEPT ![t] = next_iteration]
    /\ UNCHANGED <<main_vars, pure_vars, net_size, state_vars, started, fault, max_beam_size, use_symmetry,
                   num_scoring_iterations, beam, temp_beam, beam_successors, candidates,
                   current_beam_size, level, completed_index, active_indices,
                   tests_per_candidate, score_tests_run, local_candidates, returned, pc>>

\* the body of the iteration: rebuild the state of beam[i], find its
\* successors, and either report it complete or push its candidates
ExpandEntry(t) ==
    /\ pc = "collect"
    /\ thread_pc[t] = "work"
    /\ LET i == thread_i[t]
           succ_ops == find_successors(reconstruct_state(beam[i], level))
       IN IF succ_ops = {}
          THEN /\ completed_index' = publish_completion(completed_index, i)
               /\ UNCHANGED local_candidates
          ELSE /\ local_candidates' =
                     [local_candidates EXCEPT
                        ![t] = @ \o entry_candidates(i, beam[i], level, succ_ops)]
               /\ UNCHANGED completed_index
    /\ thread_pc' = [thread_pc EXCEPT ![t] = "loop"]
    /\ thread_i' = [thread_i EXCEPT ![t] = 0]
    /\ UNCHANGED <<main_vars, pure_vars, net_size, state_vars, started, fault, max_beam_size, use_symmetry,
                   num_scoring_iterations, beam, temp_beam, beam_successors, candidates,
                   current_beam_size, level, active_indices, tests_per_candidate,
                   score_tests_run, next_iteration, returned, pc>>

\* a variant of merge_chunk in which the chunk replaces the list
merge_chunk_replaces(cands, chunk) == chunk

\* candidates.insert(candidates.end(), local_candidates.begin(), local_candidates.end())
merge_chunk(cands, chunk) == cands \o chunk

\* after the barrier of the omp for loop: the critical section that appends
\* local_candidates to candidates
MergeCandidates(t) ==
    /\ pc = "collect"
    /\ thread_pc[t] = "loop"
    /\ next_iteration >= current_beam_size
    /\ \A u \in Threads : thread_pc[u] # "work"
    /\ candidates' = merge_chunk(candidates, local_candidates[t])
    /\ thread_pc' = [thread_pc EXCEPT ![t] = "merged"]
    /\ UNCHANGED <<main_vars, pure_vars, net_size, state_vars, started, fault, max_beam_size, use_symmetry,
                   num_scoring_iterations, beam, temp_beam, beam_successors,
                   current_beam_size, level, completed_index, active_indices,
                   tests_per_candidate, score_tests_run, next_iteration, thread_i,
                   local_candidates, returned, pc>>

\* after the parallel region: deduplication by canonical hash
Deduplicate ==
    /\ pc = "collect"
    /\ \A t \in Threads : thread_pc[t] = "merged"
    /\ candidates' = deduplicate(candidates)
    /\ pc' = "check"
    /\ UNCHANGED <<main_vars, pure_vars, net_size, state_vars, started, fault, max_beam_size, use_symmetry,
                   num_scoring_iterations, beam, temp_beam, beam_successors,
                   current_beam_size, level, completed_index, active_indices,
                   tests_per_candidate, score_tests_run, next_iteration, thread_pc,
                   thread_i, local_candidates, returned>>

\* variant: the first beam entry is replayed into result
ReturnCompleted_first_entry ==
    /\ pc = "check"
    /\ completed_index # -1
    /\ SetS(replay_from(set_start_state(S), beam[0], 0, level))
    /\ started' = TRUE
    /\ returned' = level
    /\ pc' = "returned"
    /\ UNCHANGED <<main_vars, pure_vars, net_size, fault, max_beam_size, use_symmetry, num_scoring_iterations,
                   beam, temp_beam, beam_successors, candidates, current_beam_size,
                   level, completed_index, active_indices, tests_per_candidate,
                   score_tests_run, next_iteration, thread_pc, thread_i,
                   local_candidates>>

\* completed_index != -1: replay the completed entry into result and return
ReturnCompleted ==
    /\ pc = "check"
    /\ completed_index # -1
    /\ SetS(replay_from(set_start_state(S), beam[completed_index], 0, level))
    /\ started' = TRUE
    /\ returned' = level
    /\ pc' = "returned"
    /\ UNCHANGED <<main_vars, pure_vars, net_size, fault, max_beam_size, use_symmetry, num_scoring_iterations,
                   beam, temp_beam, beam_successors, candidates, current_beam_size,
                   level, completed_index, active_indices, tests_per_candidate,
                   score_tests_run, next_iteration, thread_pc, thread_i,
                   local_candidates>>

\* no halving needed: every candidate is copied to beam_successors
CopyAllCandidates ==
    /\ pc = "check"
    /\ completed_index = -1
    /\ Len(candidates) <= max_beam_size
    /\ beam_successors' =
          copy_candidates_to_successors(candidates, [k \in 1 .. Len(candidates) |-> k - 1])
    /\ pc' = "reconstruct"
    /\ UNCHANGED <<main_vars, pure_vars, net_size, state_vars, started, fault, max_beam_size, use_symmetry,
                   num_scoring_iterations, beam, temp_beam, candidates,
                   current_beam_size, level, completed_index, active_indices,
                   tests_per_candidate, score_tests_run, next_iteration, thread_pc,
                   thread_i, local_candidates, returned>>

\* the set-up of successive halving
StartHalving ==
    /\ pc = "check"
    /\ completed_index = -1
    /\ Len(candidates) > max_beam_size
    /\ active_indices' = 0 .. Len(candidates) - 1
    /\ tests_per_candidate' =
          initial_tests_per_candidate(num_scoring_iterations,
                                      num_rounds(Len(candidates), max_beam_size))
    /\ pc' = "halving"
    /\ UNCHANGED <<main_vars, pure_vars, net_size, state_vars, started, fault, max_beam_size, use_symmetry,
                   num_scoring_iterations, beam, temp_beam, beam_successors, candidates,
                   current_beam_size, level, completed_index, score_tests_run,
                   next_iteration, thread_pc, thread_i, local_candidates, returned>>

\* one round of the while loop: score every active candidate, sort, and either
\* keep the better half or leave the loop and select the final successors
HalvingRound ==
    /\ pc = "halving"
    /\ score_tests_run' =
          score_tests_run + tests_per_candidate * Cardinality(active_indices)
    /\ LET new_size == Cardinality(active_indices) \div 2
       IN IF new_size > max_beam_size
          THEN /\ \E kept \in sorted_prefix_sets(active_indices, new_size) :
                     active_indices' = kept
               /\ tests_per_candidate' = tests_per_candidate * 2
               /\ UNCHANGED <<beam_successors, pc>>
          ELSE /\ \E order \in sorted_prefixes(active_indices,
                         Min(IF new_size < max_beam_size
                             THEN Cardinality(active_indices) ELSE new_size,
                             max_beam_size)) :
                     beam_successors' = copy_candidates_to_successors(candidates, order)
               /\ active_indices' = {}
               /\ tests_per_candidate' = 0
               /\ pc' = "reconstruct"
    /\ UNCHANGED <<main_vars, pure_vars, net_size, state_vars, started, fault, max_beam_size, use_symmetry,
                   num_scoring_iterations, beam, temp_beam, candidates,
                   current_beam_size, level, completed_index, next_iteration,
                   thread_pc, thread_i, local_candidates, returned>>

\* variant: the level loop does not advance
Reconstruct_level_kept ==
    /\ pc = "reconstruct"
    /\ current_beam_size' = Len(beam_successors)
    /\ IF level < max_ops
       THEN /\ temp_beam' =
                 [i \in DOMAIN temp_beam |->
                    IF i < Len(beam_successors)
                    THEN [j \in DOMAIN temp_beam[i] |->
                            IF j < level THEN beam[beam_successors[i + 1].beam_index][j]
                            ELSE IF j = level THEN beam_successors[i + 1].operation
                            ELSE temp_beam[i][j]]
                    ELSE temp_beam[i]]
            /\ beam' =
                 [i \in DOMAIN beam |->
                    IF i < Len(beam_successors)
                    THEN [j \in DOMAIN beam[i] |->
                            IF j <= level THEN temp_beam'[i][j] ELSE beam[i][j]]
                    ELSE beam[i]]
            /\ level' = level
            /\ pc' = "level"
            /\ UNCHANGED fault
       ELSE /\ fault' \in {"overrun", "crash"}
            /\ pc' = "returned"
            /\ UNCHANGED <<beam, temp_beam, level>>
    /\ UNCHANGED <<main_vars, pure_vars, net_size, state_vars, started, max_beam_size, use_symmetry,
                   num_scoring_iterations, beam_successors, candidates, completed_index,
                   active_indices, tests_per_candidate, score_tests_run, next_iteration,
                   thread_pc, thread_i, local_candidates, returned>>

\* beam reconstruction; temp_beam[i][level] is an unchecked store
Reconstruct ==
    /\ pc = "reconstruct"
    /\ current_beam_size' = Len(beam_successors)
    /\ IF level < max_ops
       THEN /\ temp_beam' =
                 [i \in DOMAIN temp_beam |->
                    IF i < Len(beam_successors)
                    THEN [j \in DOMAIN temp_beam[i] |->
                            IF j < level THEN beam[beam_successors[i + 1].beam_index][j]
                            ELSE IF j = level THEN beam_successors[i + 1].operation
                            ELSE temp_beam[i][j]]
                    ELSE temp_beam[i]]
            /\ beam' =
                 [i \in DOMAIN beam |->
                    IF i < Len(beam_successors)
                    THEN [j \in DOMAIN beam[i] |->
                            IF j <= level THEN temp_beam'[i][j] ELSE beam[i][j]]
                    ELSE beam[i]]
            /\ level' = level + 1
            /\ pc' = "level"
            /\ UNCHANGED fault
       ELSE /\ fault' \in {"overrun", "crash"}
            /\ pc' = "returned"
            /\ UNCHANGED <<beam, temp_beam, level>>
    /\ UNCHANGED <<main_vars, pure_vars, net_size, state_vars, started, max_beam_size, use_symmetry,
                   num_scoring_iterations, beam_successors, candidates, completed_index,
                   active_indices, tests_per_candidate, score_tests_run, next_iteration,
                   thread_pc, thread_i, local_candidates, returned>>

\* the call beam_search(result, config, lookups) on a fresh context and a fresh
\* result object
InitSearch ==
    /\ net_size \in 2 .. MaxSearchNetSize
    /\ PureIdle
    /\ MainIdle
    /\ max_beam_size \in 1 .. MaxBeam
    /\ use_symmetry \in BOOLEAN
    /\ num_scoring_iterations \in 1 .. MaxTests
    /\ used_list = NewState(net_size).used_list
    /\ first_used = NewState(net_size).first_used
    /\ num_unsorted = NewState(net_size).num_unsorted
    /\ operations = NewState(net_size).operations
    /\ current_level = NewState(net_size).current_level
    /\ started = FALSE
    /\ fault = "none"
    /\ beam = NewBeam(net_size, max_beam_size)
    /\ temp_beam = NewBeam(net_size, max_beam_size)
    /\ beam_successors = <<>>
    /\ candidates = <<>>
    /\ current_beam_size = 1
    /\ level = 0
    /\ completed_index = -1
    /\ active_indices = {}
    /\ tests_per_candidate = 0
    /\ score_tests_run = 0
    /\ next_iteration = 0
    /\ thread_pc = [t \in Threads |-> "loop"]
    /\ thread_i = [t \in Threads |-> 0]
    /\ local_candidates = [t \in Threads |-> <<>>]
    /\ returned = -1
    /\ pc = "level"

NextSearch ==
    \/ BeginLevel
    \/ \E t \in Threads : ClaimIteration(t)
    \/ \E t \in Threads : ExpandEntry(t)
    \/ \E t \in Threads : MergeCandidates(t)
    \/ Deduplicate
    \/ ReturnCompleted
    \/ CopyAllCandidates
    \/ StartHalving
    \/ HalvingRound
    \/ Reconstruct

SpecSearch == InitSearch /\ [][NextSearch]_vars

\* a step that is enabled exactly when ExpandEntry(t) is: its guard, and the
\* move of the thread back to the loop
ExpandEntryEnabled(t) ==
    /\ pc = "collect"
    /\ thread_pc[t] = "work"
    /\ thread_pc' = [thread_pc EXCEPT ![t] = "loop"]
    /\ UNCHANGED <<main_vars, pure_vars, net_size, state_vars, started, fault, max_beam_size, use_symmetry,
                   num_scoring_iterations, beam, temp_beam, beam_successors, candidates,
                   current_beam_size, level, completed_index, active_indices,
                   tests_per_candidate, score_tests_run, next_iteration, thread_i,
                   local_candidates, returned, pc>>

\* a step that is enabled exactly when ReturnCompleted is: its guard, and the
\* move to the return
ReturnCompletedEnabled ==
    /\ pc = "check"
    /\ completed_index # -1
    /\ pc' = "returned"
    /\ UNCHANGED <<main_vars, pure_vars, net_size, state_vars, started, fault, max_beam_size, use_symmetry,
                   num_scoring_iterations, beam, temp_beam, beam_successors, candidates,
                   current_beam_size, level, completed_index, active_indices,
                   tests_per_candidate, score_tests_run, next_iteration, thread_pc,
                   thread_i, local_candidates, returned>>

\* enabled exactly when NextSearch is
SearchStep ==
    \/ BeginLevel
    \/ \E t \in Threads : ClaimIteration(t)
    \/ \E t \in Threads : ExpandEntryEnabled(t)
    \/ \E t \in Threads : MergeCandidates(t)
    \/ Deduplicate
    \/ ReturnCompletedEnabled
    \/ CopyAllCandidates
    \/ StartHalving
    \/ HalvingRound
    \/ Reconstruct

\* the program keeps running: while some thread, or the sequential code between
\* the parallel regions, can take a step, the search does not stop for ever
FairSpecSearch == SpecSearch /\ WF_vars(SearchStep)

(***************************************************************************)
(* What the claims speak of, stated without the list.                      *)
(***************************************************************************)
\* the slots of the list, from first_used along next
RECURSIVE list_from(_, _, _)
list_from(ul, i, fuel) ==
    IF i = END_OF_LIST \/ fuel = 0 THEN <<>>
    ELSE <<i>> \o list_from(ul, ul[i].next, fuel - 1)

ListNodes == list_from(used_list, first_used, get_num_input_patterns(net_size) + 1)

NodeSlots == {ListNodes[k] : k \in 1 .. Len(ListNodes)}

\* the values recorded by the nodes of the list
LiveValues == {used_list[k].bit_pattern : k \in NodeSlots}

\* a pattern 1^a 0^(n-a) read from bit 0 upward
SortedForm(p) == \E a \in 0 .. net_size : p = 2 ^ a - 1

\* one comparator on one 0/1 input: a 0 at wire i and a 1 at wire j change places
Exchange(p, i, j) ==
    IF Bit(p, i) = 0 /\ Bit(p, j) = 1 THEN p + 2 ^ i - 2 ^ j ELSE p

\* the output of the first k comparators of ops on input p
RECURSIVE NetworkOutput(_, _, _)
NetworkOutput(p, ops, k) ==
    IF k = 0 THEN p
    ELSE Exchange(NetworkOutput(p, ops, k - 1), ops[k - 1].op1, ops[k - 1].op2)

\* the State object holds a replay: reset, then apply for each comparator
Replayed == started /\ fault = "none"

SortsEveryInput ==
    \A p \in Patterns(net_size) : SortedForm(NetworkOutput(p, operations, current_level))

\* C1: after reset followed by apply for each comparator of O, num_unsorted = 0
\* if and only if O maps every one of the 2^n binary inputs to a sorted pattern.
C1_TerminalIffSortsAll ==
    Replayed => ((num_unsorted = 0) <=> SortsEveryInput)

\* a three-wire replay that has reached num_unsorted = 0
C1_Witness ==
    Replayed /\ net_size = 3 /\ current_level > 0 /\ num_unsorted = 0

\* C2: after reset and after any sequence of apply / random_rollout_step,
\* num_unsorted is the number of nodes reachable from first_used along next, and
\* first_used = END_OF_LIST exactly when num_unsorted = 0.
C2_CountIsListLength ==
    Replayed => /\ num_unsorted = Len(ListNodes)
                /\ (first_used = END_OF_LIST) <=> (num_unsorted = 0)

\* a replay during which nodes were unlinked and others remain
C2_Witness ==
    /\ Replayed /\ current_level > 0
    /\ 0 < num_unsorted
    /\ num_unsorted < get_num_input_patterns(net_size) - (net_size + 1)

\* C3: every node records an unsorted value whose slot has in_list = 1, no two
\* nodes record the same value, and in_list is 1 only at the slots of recorded
\* values.
C3_ListedValuesAreLive ==
    Replayed =>
      /\ \A k \in NodeSlots : /\ ~SortedForm(used_list[k].bit_pattern)
                              /\ used_list[used_list[k].bit_pattern].in_list = 1
      /\ \A k1, k2 \in NodeSlots :
            used_list[k1].bit_pattern = used_list[k2].bit_pattern => k1 = k2
      /\ \A x \in Patterns(net_size) : used_list[x].in_list = 1 => x \in LiveValues

\* a replay in which two inputs collapsed to one unsorted image, so that a slot
\* flagged by reset has been cleared while its image stays listed once
C3_Witness ==
    /\ Replayed /\ num_unsorted > 0
    /\ \E p, q \in Patterns(net_size) :
          /\ p # q
          /\ NetworkOutput(p, operations, current_level)
               = NetworkOutput(q, operations, current_level)
          /\ ~SortedForm(NetworkOutput(p, operations, current_level))
          /\ used_list[q].in_list = 0

\* C4 as stated: after every mutator every node at slot k has in_list = 1 at
\* slot k and stores the pattern value k.
C4_IndexEqualsValue ==
    Replayed => \A k \in NodeSlots : /\ used_list[k].in_list = 1
                                     /\ used_list[k].bit_pattern = k

\* C4 amended: the node at slot k stores the image of k under the comparators
\* applied since reset (k itself right after reset), and in_list is 1 at the
\* slot of the stored value.
C4_IndexIsValueAtReset ==
    Replayed => \A k \in NodeSlots :
                  /\ used_list[k].bit_pattern = NetworkOutput(k, operations, current_level)
                  /\ used_list[used_list[k].bit_pattern].in_list = 1
                  /\ (current_level = 0 => used_list[k].bit_pattern = k)

\* a listed node whose own slot is no longer flagged
C4_Witness ==
    Replayed /\ \E k \in NodeSlots : used_list[k].in_list = 0

\* the state reset must produce
ResetPost ==
    /\ NodeSlots = {p \in Patterns(net_size) : ~SortedForm(p)}
    /\ Len(ListNodes) = Cardinality(NodeSlots)
    /\ \A p \in Patterns(net_size) :
          IF SortedForm(p) THEN used_list[p].in_list = 0
          ELSE used_list[p].in_list = 1 /\ used_list[p].bit_pattern = p
    /\ num_unsorted = get_num_input_patterns(net_size) - (net_size + 1)
    /\ current_level = 0

C7_CapacityBreachAborts == fault # "overrun"

\* the beam entry i of the current level has no valid comparator
EntryComplete(i) == find_successors(reconstruct_state(beam[i], level)) = {}

\* beam_search has returned through its return statement
SearchReturned == pc = "returned" /\ fault = "none"

C9_ResultIsCompletedEntry ==
    SearchReturned =>
       /\ completed_index \in 0 .. current_beam_size - 1
       /\ EntryComplete(completed_index)
       /\ current_level = returned
       /\ returned = level
       /\ \A j \in 0 .. level - 1 : operations[j] = beam[completed_index][j]
       /\ num_unsorted = 0
       /\ SortsEveryInput

\* the search returned the second entry of its beam, whose comparators differ
\* from those of the first
C9_Witness ==
    /\ SearchReturned
    /\ completed_index = 1
    /\ \E j \in 0 .. level - 1 : beam[0][j] # beam[1][j]

\* the sequence that beam_successors[k] advances: its parent's comparators and
\* its own
Advanced(k) ==
    Append(row_prefix(beam[beam_successors[k].beam_index], level),
           beam_successors[k].operation)

\* the successor that candidates[k] would be copied to
AsSuccessor(cand) ==
    [beam_index |-> cand.beam_index, operation |-> [op1 |-> cand.op1, op2 |-> cand.op2]]

\* C10: at the end of every non-terminal level the new beam width is
\* min(|unique candidates|, max_beam) and at least 1; when |unique| <= max_beam
\* every unique candidate advances and no rollout is run, otherwise exactly
\* max_beam distinct unique candidates advance.
C10_BeamWidth ==
    [][Reconstruct =>
         /\ current_beam_size' = Min(Len(candidates), max_beam_size)
         /\ current_beam_size' >= 1
         /\ \A k \in 1 .. current_beam_size' :
               /\ \E c \in 1 .. Len(candidates) : beam_successors[k] = AsSuccessor(candidates[c])
               /\ row_prefix(beam'[k - 1], level + 1) = Advanced(k)
         /\ \A k, m \in 1 .. current_beam_size' :
               k # m => beam_successors[k] # beam_successors[m]
         /\ (Len(candidates) <= max_beam_size =>
               /\ score_tests_run = 0
               /\ \A c \in 1 .. Len(candidates) : beam_successors[c] = AsSuccessor(candidates[c]))
         /\ (Len(candidates) > max_beam_size =>
               /\ current_beam_size' = max_beam_size
               /\ score_tests_run > 0)]_vars

\* the level ends with more unique candidates than the beam holds, and two of
\* them were selected after rollouts
C10_Witness ==
    /\ pc = "reconstruct"
    /\ Len(candidates) > max_beam_size
    /\ Len(beam_successors) = 2
    /\ score_tests_run > 0


\* C11: at every level where successive halving runs (more unique candidates
\* than max_beam), the rollouts performed at that level number at least
\* base_scoring_tests * |unique candidates|.
C11_HalvingBudget ==
    (pc = "reconstruct" /\ Len(candidates) > max_beam_size) =>
        score_tests_run >= num_scoring_iterations * Len(candidates)

\* the positions of the candidates that are the first to carry their hash
FirstOfHash(cands) ==
    {i \in 1 .. Len(cands) :
        \A j \in 1 .. i - 1 : cands[j].canonical_hash # cands[i].canonical_hash}

\* C12: deduplication keeps, for every canonical hash in the candidate list,
\* exactly the first candidate carrying it: afterwards no two candidates share a
\* hash, every hash present before is still present, and the survivors are in
\* their original relative order.
C12_DedupKeepsFirst ==
    [][Deduplicate =>
         /\ Len(candidates') = Cardinality(FirstOfHash(candidates))
         /\ \A i \in FirstOfHash(candidates) :
               candidates'[Cardinality({j \in FirstOfHash(candidates) : j <= i})]
                  = candidates[i]
         /\ \A k, m \in 1 .. Len(candidates') :
               k # m => candidates'[k].canonical_hash # candidates'[m].canonical_hash
         /\ \A i \in 1 .. Len(candidates) :
               \E k \in 1 .. Len(candidates') :
                  candidates'[k].canonical_hash = candidates[i].canonical_hash]_vars

\* deduplication has dropped a collected candidate and kept at least two
C12_Witness ==
    /\ pc = "check"
    /\ Len(candidates) >= 2
    /\ \E t \in Threads : \E k \in 1 .. Len(local_candidates[t]) :
          \A m \in 1 .. Len(candidates) : candidates[m] # local_candidates[t][k]

\* the set cells of M for a beam row: the comparators that change the output
\* of the row's first level comparators on some input
ValidCells(row) ==
    {c \in Comparators(net_size) :
        \E p \in Patterns(net_size) :
           /\ Bit(NetworkOutput(p, row, level), c[1]) = 0
           /\ Bit(NetworkOutput(p, row, level), c[2]) = 1}

\* the gate of the symmetry heuristic for a beam row whose last comparator is
\* (p, q): four distinct wires p, q, n-1-q, n-1-p and M[n-1-q][n-1-p] = 1
MirrorGate(row) ==
    /\ use_symmetry
    /\ level >= 1
    /\ Cardinality({row[level - 1].op1, row[level - 1].op2,
                    (net_size - 1) - row[level - 1].op2,
                    (net_size - 1) - row[level - 1].op1}) = 4
    /\ <<(net_size - 1) - row[level - 1].op2, (net_size - 1) - row[level - 1].op1>>
          \in ValidCells(row)

\* C13: expanding a non-terminal beam entry whose last comparator is (p, q):
\* with the symmetry heuristic enabled, L >= 1, four distinct wires p, q, n-1-q,
\* n-1-p and M[n-1-q][n-1-p] = 1, exactly one candidate, the mirror
\* (n-1-q, n-1-p), is emitted; in every other case exactly one candidate is
\* emitted for each set cell of M.
C13_SymmetryShortcut ==
    [][\A t \in Threads :
         (/\ pc = "collect" /\ thread_pc[t] = "work" /\ thread_pc'[t] = "loop"
          /\ ValidCells(beam[thread_i[t]]) # {}) =>
            LET row == beam[thread_i[t]]
                before == Len(local_candidates[t])
                emitted == [k \in 1 .. Len(local_candidates'[t]) - before |->
                              local_candidates'[t][before + k]]
            IN /\ \A k \in 1 .. before : local_candidates'[t][k] = local_candidates[t][k]
               /\ \A k \in 1 .. Len(emitted) : emitted[k].beam_index = thread_i[t]
               /\ IF MirrorGate(row)
                  THEN /\ Len(emitted) = 1
                       /\ emitted[1].op1 = (net_size - 1) - row[level - 1].op2
                       /\ emitted[1].op2 = (net_size - 1) - row[level - 1].op1
                  ELSE /\ Len(emitted) = Cardinality(ValidCells(row))
                       /\ \A c \in ValidCells(row) :
                             \E k \in 1 .. Len(emitted) :
                                emitted[k].op1 = c[1] /\ emitted[k].op2 = c[2]]_vars

\* a thread has emitted the mirror alone for an entry that has other valid
\* comparators
C13_Witness ==
    /\ pc = "collect"
    /\ \E t \in Threads :
          /\ Len(local_candidates[t]) = 1
          /\ LET row == beam[local_candidates[t][1].beam_index]
             IN /\ MirrorGate(row)
                /\ Cardinality(ValidCells(row)) > 1
                /\ local_candidates[t][1].op1 = (net_size - 1) - row[level - 1].op2
                /\ local_candidates[t][1].op2 = (net_size - 1) - row[level - 1].op1


(***************************************************************************)
(* The canonical hash as a function of a comparator sequence: a sequence   *)
(* the search can build is drawn, then an equivalent sequence is derived   *)
(* from it and both are hashed.                                            *)
(***************************************************************************)
\* largest network size and sequence length handed to the hash
MaxHashNetSize == 4
MaxHashOps == 4

OpRecords(n) == {[op1 |-> c[1], op2 |-> c[2]] : c \in Comparators(n)}

\* the comparator array behind a sequence, indexed from 0
AsArray(ops) == [k \in 0 .. Len(ops) - 1 |-> ops[k + 1]]

\* every comparator changes some input that reaches it: the sequences that
\* beam_search extends one valid successor at a time
SearchSequence(ops, n) ==
    \A k \in 1 .. Len(ops) : \E p \in 0 .. 2 ^ n - 1 :
        LET q == NetworkOutput(p, AsArray(ops), k - 1)
        IN  Bit(q, ops[k].op1) = 0 /\ Bit(q, ops[k].op2) = 1

SearchSequences(n, len) ==
    {ops \in UNION {[1 .. l -> OpRecords(n)] : l \in 0 .. len} : SearchSequence(ops, n)}

\* the bijections of the wires
WirePermutations(n) == {pi \in [Wires(n) -> Wires(n)] : \A a, b \in Wires(n) : pi[a] = pi[b] => a = b}

\* pi(O): each comparator relabelled, i < j restored
Relabelled(ops, pi) ==
    [i \in 1 .. Len(ops) |->
        IF pi[ops[i].op1] < pi[ops[i].op2]
        THEN [op1 |-> pi[ops[i].op1], op2 |-> pi[ops[i].op2]]
        ELSE [op1 |-> pi[ops[i].op2], op2 |-> pi[ops[i].op1]]]

Disjoint(a, b) == {a.op1, a.op2} \cap {b.op1, b.op2} = {}

\* positions a .. b of ops hold comparators on pairwise disjoint wires
ParallelBlock(ops, a, b) ==
    \A i, j \in a .. b : i # j => Disjoint(ops[i], ops[j])

\* ops with the positions a .. b rearranged by sigma
Rearranged(ops, a, b, sigma) ==
    [i \in 1 .. Len(ops) |-> IF i \in a .. b THEN ops[sigma[i]] ELSE ops[i]]

HashPair(kind, ops, other) ==
    [kind |-> kind, other |-> other,
     hash |-> compute_canonical_hash(ops, net_size),
     other_hash |-> compute_canonical_hash(other, net_size),
     normal |-> canonical_normalize(ops, net_size),
     other_normal |-> canonical_normalize(other, net_size)]

InitHash ==
    /\ net_size \in 2 .. MaxHashNetSize
    /\ arg_ops \in SearchSequences(net_size, MaxHashOps)
    /\ arg_pattern = 0
    /\ fn_value = <<>>
    /\ fn_pc = "drawn"
    /\ MainIdle
    /\ used_list = NewState(net_size).used_list
    /\ first_used = END_OF_LIST
    /\ num_unsorted = 0
    /\ operations = NewState(net_size).operations
    /\ current_level = 0
    /\ started = FALSE
    /\ fault = "none"
    /\ SearchIdle

\* hash the sequence and a relabelling of it
HashRelabelled ==
    /\ fn_pc = "drawn"
    /\ \E pi \in WirePermutations(net_size) :
          fn_value' = HashPair("relabel", arg_ops, Relabelled(arg_ops, pi))
    /\ fn_pc' = "applied"
    /\ UNCHANGED <<arg_ops, arg_pattern, net_size, started, fault, state_vars, search_vars, main_vars>>

\* hash the sequence and a rearrangement of one of its parallel layers
HashRearranged ==
    /\ fn_pc = "drawn"
    /\ \E a \in 1 .. Len(arg_ops) : \E b \in a + 1 .. Len(arg_ops) :
          /\ ParallelBlock(arg_ops, a, b)
          /\ \E sigma \in Permutations(a .. b) :
                fn_value' = HashPair("reorder", arg_ops, Rearranged(arg_ops, a, b, sigma))
    /\ fn_pc' = "applied"
    /\ UNCHANGED <<arg_ops, arg_pattern, net_size, started, fault, state_vars, search_vars, main_vars>>

NextHash == HashRelabelled \/ HashRearranged

SpecHash == InitHash /\ [][NextHash]_vars

\* C14: the canonical hash of a relabelled sequence equals the canonical hash
\* of the sequence, for every comparator sequence and every permutation of the
\* wires
C14_HashRelabelInvariant ==
    (fn_pc = "applied" /\ fn_value.kind = "relabel") =>
        fn_value.other_hash = fn_value.hash

\* C15: the canonical hash of a sequence does not change when the comparators
\* of one parallel layer (consecutive comparators on pairwise disjoint wires)
\* are reordered
C15_HashLayerOrderInvariant ==
    (fn_pc = "applied" /\ fn_value.kind = "reorder") =>
        fn_value.other_hash = fn_value.hash


(***************************************************************************)
(* minimise_depth and get_depth, applied to a State object that holds a    *)
(* replayed comparator sequence.                                           *)
(***************************************************************************)
\* largest network size and sequence length handed to minimise_depth
MaxDepthNetSize == 5
MaxDepthOps == 4

\* the wires a comparator marks in used_ops1 / used_ops2 / used_ops
op_wires(op) == {op.op1, op.op2}

\* used[op.op1] == 1 || used[op.op2] == 1
is_marked(used, op) == op_wires(op) \cap used # {}

\* used[op.op1] = 1; used[op.op2] = 1
mark_used(used, op) == used \cup op_wires(op)

\* a variant of the swap that copies operations[l1] to operations[l2] and
\* leaves operations[l1] as it was
swap_copy_down(ops, l1, l2) == [ops EXCEPT ![l2] = ops[l1]]

\* std::swap(operations[l1], operations[l2])
swap(ops, l1, l2) == [ops EXCEPT ![l1] = ops[l2], ![l2] = ops[l1]]

\* a variant of the inner loop that does not stop at a comparator whose wires
\* are marked in used_ops2
RECURSIVE minimise_inner_past_conflicts(_, _, _, _, _, _, _)
minimise_inner_past_conflicts(ops, lvl, l1, l2, used_ops1, used_ops2, altered) ==
    IF l2 >= lvl THEN [operations |-> ops, l1 |-> l1, altered |-> altered]
    ELSE IF op_wires(ops[l2]) \cap used_ops1 = {}
    THEN minimise_inner_past_conflicts(swap(ops, l1, l2), lvl, l1 + 1, l1 + 1,
                        used_ops1 \cup op_wires(ops[l2]), {}, TRUE)
    ELSE minimise_inner_past_conflicts(ops, lvl, l1, l2 + 1, used_ops1,
                        used_ops2 \cup op_wires(ops[l2]), altered)

\* the inner loop of minimise_depth (for l2) from l2 on; used_ops1 and
\* used_ops2 are the sets of wires marked 1
RECURSIVE minimise_inner(_, _, _, _, _, _, _)
minimise_inner(ops, lvl, l1, l2, used_ops1, used_ops2, altered) ==
    IF l2 >= lvl THEN [operations |-> ops, l1 |-> l1, altered |-> altered]
    ELSE IF op_wires(ops[l2]) \cap used_ops2 # {}
    THEN [operations |-> ops, l1 |-> l1, altered |-> altered]
    ELSE IF op_wires(ops[l2]) \cap used_ops1 = {}
    THEN minimise_inner(swap(ops, l1, l2), lvl, l1 + 1, l1 + 1,
                        used_ops1 \cup op_wires(ops[l2]), {}, TRUE)
    ELSE minimise_inner(ops, lvl, l1, l2 + 1, used_ops1,
                        used_ops2 \cup op_wires(ops[l2]), altered)

\* the outer loop of minimise_depth (for l1) from l1 on
RECURSIVE minimise_pass(_, _, _, _, _)
minimise_pass(ops, lvl, l1, used_ops1, altered) ==
    IF l1 >= lvl THEN [operations |-> ops, altered |-> altered]
    ELSE IF op_wires(ops[l1]) \cap used_ops1 # {}
    THEN LET r == minimise_inner(ops, lvl, l1, l1, used_ops1, {}, altered)
         IN  minimise_pass(r.operations, lvl, r.l1 + 1,
                           op_wires(r.operations[r.l1]), r.altered)
    ELSE minimise_pass(ops, lvl, l1 + 1, used_ops1 \cup op_wires(ops[l1]), altered)

\* minimise_depth: passes are repeated while one altered the sequence
RECURSIVE minimise_depth(_)
minimise_depth(st) ==
    LET r == minimise_pass(st.operations, st.current_level, 0, {}, FALSE)
    IN  IF r.altered THEN minimise_depth([st EXCEPT !.operations = r.operations])
        ELSE [st EXCEPT !.operations = r.operations]

\* the loop of get_depth from i on
RECURSIVE get_depth_from(_, _, _, _, _)
get_depth_from(ops, lvl, i, used_ops, num_used) ==
    IF i >= lvl THEN num_used
    ELSE IF op_wires(ops[i]) \cap used_ops # {}
    THEN get_depth_from(ops, lvl, i + 1, op_wires(ops[i]), num_used + 1)
    ELSE get_depth_from(ops, lvl, i + 1, used_ops \cup op_wires(ops[i]), num_used)

\* a variant of get_depth that starts its count of layers at 0
get_depth_counts_from_zero(st) == get_depth_from(st.operations, st.current_level, 0, {}, 0)

get_depth(st) == get_depth_from(st.operations, st.current_level, 0, {}, 1)

\* the State object after set_start_state and one update_state per comparator
Replay(ops) ==
    replay_from(set_start_state(NewState(net_size)), AsArray(ops), 0, Len(ops))

InitDepth ==
    /\ net_size \in 2 .. MaxDepthNetSize
    /\ arg_ops \in SearchSequences(net_size, MaxDepthOps)
    /\ arg_pattern = 0
    /\ fn_value = <<>>
    /\ fn_pc = "drawn"
    /\ MainIdle
    /\ used_list = NewState(net_size).used_list
    /\ first_used = END_OF_LIST
    /\ num_unsorted = 0
    /\ operations = NewState(net_size).operations
    /\ current_level = 0
    /\ started = FALSE
    /\ fault = "none"
    /\ SearchIdle

\* set_start_state, then update_state for each comparator of the sequence
ReplaySequence ==
    /\ fn_pc = "drawn"
    /\ SetS(Replay(arg_ops))
    /\ started' = TRUE
    /\ fn_pc' = "replayed"
    /\ UNCHANGED <<arg_ops, arg_pattern, fn_value, net_size, fault, search_vars, main_vars>>

\* get_depth on the object, before and after minimise_depth
GetDepth ==
    /\ fn_pc \in {"replayed", "minimised"}
    /\ fn_value' = Append(fn_value, get_depth(S))
    /\ fn_pc' = IF fn_pc = "replayed" THEN "measured" ELSE "applied"
    /\ UNCHANGED <<arg_ops, arg_pattern, net_size, started, fault, state_vars, search_vars, main_vars>>

MinimiseDepth ==
    /\ fn_pc = "measured"
    /\ SetS(minimise_depth(S))
    /\ fn_pc' = "minimised"
    /\ UNCHANGED <<arg_ops, arg_pattern, fn_value, net_size, started, fault, search_vars, main_vars>>

NextDepth == ReplaySequence \/ GetDepth \/ MinimiseDepth

SpecDepth == InitDepth /\ [][NextDepth]_vars

\* C16: the depth get_depth reports after minimise_depth is at most the depth
\* it reported before
C16_DepthNotIncreased ==
    fn_pc = "applied" => fn_value[2] <= fn_value[1]

\* the sequence was reordered and its depth fell
C16_Witness ==
    /\ fn_pc = "applied"
    /\ fn_value[2] < fn_value[1]
    /\ \E k \in 0 .. current_level - 1 : operations[k] # arg_ops[k + 1]

\* the positions below lvl of ops whose comparator touches wire w, in order
RECURSIVE OnWire(_, _, _)
OnWire(ops, lvl, w) ==
    IF lvl = 0 THEN <<>>
    ELSE IF w \in op_wires(ops[lvl - 1])
         THEN Append(OnWire(ops, lvl - 1, w), ops[lvl - 1])
         ELSE OnWire(ops, lvl - 1, w)

Occurrences(ops, lvl, op) == Cardinality({k \in 0 .. lvl - 1 : ops[k] = op})

\* C17: minimise_depth only permutes the first current_level comparators: the
\* level, the multiset of comparators and everything else in the object are
\* unchanged, the comparators on each wire keep their order, and every binary
\* input is mapped to the output it was mapped to before
C17_MinimiseOnlyPermutes ==
    [][MinimiseDepth =>
        /\ current_level' = current_level
        /\ <<used_list', first_used', num_unsorted'>> = <<used_list, first_used, num_unsorted>>
        /\ DOMAIN operations' = DOMAIN operations
        /\ \A k \in DOMAIN operations : k >= current_level => operations'[k] = operations[k]
        /\ \A op \in OpRecords(net_size) :
              Occurrences(operations', current_level, op) = Occurrences(operations, current_level, op)
        /\ \A w \in Wires(net_size) :
              OnWire(operations', current_level, w) = OnWire(operations, current_level, w)
        /\ \A p \in Patterns(net_size) :
              NetworkOutput(p, operations', current_level) = NetworkOutput(p, operations, current_level)]_vars

\* minimise_depth has moved comparators of a sequence in which two comparators
\* share a wire
C17_Witness ==
    /\ fn_pc = "minimised"
    /\ \E k \in 0 .. current_level - 1 : operations[k] # arg_ops[k + 1]
    /\ \E w \in Wires(net_size) : Len(OnWire(operations, current_level, w)) >= 2


(***************************************************************************)
(* main: the iteration loop and the SIGINT handler.  A search is a run of  *)
(* levels that returns a length; its length and the depth of its result   *)
(* are drawn from the values around the best-known bounds.                 *)
(***************************************************************************)
\* largest max_iterations and network size of the runs of main
MaxIterations == 3
MaxMainNetSize == 4
\* how far the length and depth of a result may lie above the best-known bounds
MaxAboveBound == 1

\* the depth column of get_bounds
get_bounds_depth(n) ==
    CASE n = 2 -> 1   [] n = 3 -> 3   [] n = 4 -> 3   [] n = 5 -> 5
      [] n = 6 -> 5   [] n = 7 -> 6   [] n = 8 -> 6   [] n = 9 -> 7
      [] n = 10 -> 7  [] n = 11 -> 8  [] n = 12 -> 8  [] n = 13 -> 9
      [] n = 14 -> 9  [] n = 15 -> 9  [] n = 16 -> 9  [] n = 17 -> 10
      [] n = 18 -> 11 [] n = 19 -> 11 [] n = 20 -> 11 [] n = 21 -> 12
      [] n = 22 -> 12 [] n = 23 -> 12 [] n = 24 -> 12 [] n = 25 -> 13
      [] n = 26 -> 13 [] n = 27 -> 13 [] n = 28 -> 13 [] n = 29 -> 14
      [] n = 30 -> 14 [] n = 31 -> 14 [] n = 32 -> 14
      [] OTHER -> 0

\* g_config.length_upper_bound and g_config.depth_upper_bound: the best-known
\* length and depth for net_size
best_known_length == get_bounds_length(net_size)
best_known_depth == get_bounds_depth(net_size)

\* a variant of the test that also counts a result equal to a bound
found_new_bound_or_equal(len, dep) ==
    len <= best_known_length \/ dep <= best_known_depth

\* the test that ends the loop early
found_new_bound(len, dep) ==
    len < best_known_length \/ dep < best_known_depth

InitMain ==
    /\ net_size \in 2 .. MaxMainNetSize
    /\ max_iterations \in 1 .. MaxIterations
    /\ iteration = 0
    /\ exit_flag = FALSE
    /\ length = 0
    /\ depth = 0
    /\ main_level = 0
    /\ main_pc = "loop"
    /\ exit_code = -1
    /\ searches = 0
    /\ reported = 0
    /\ sigints = 0
    /\ PureIdle
    /\ used_list = NewState(net_size).used_list
    /\ first_used = END_OF_LIST
    /\ num_unsorted = 0
    /\ operations = NewState(net_size).operations
    /\ current_level = 0
    /\ started = FALSE
    /\ fault = "none"
    /\ SearchIdle

\* a variant of the loop condition that does not read exit_flag
LoopTest_flag_unread ==
    /\ main_pc = "loop"
    /\ IF iteration < max_iterations
       THEN /\ main_pc' = "search"
            /\ searches' = searches + 1
            /\ main_level' = 0
       ELSE /\ main_pc' = "finish"
            /\ UNCHANGED <<searches, main_level>>
    /\ UNCHANGED <<max_iterations, iteration, exit_flag, length, depth, exit_code,
                   reported, sigints, pure_vars, net_size, started, fault,
                   state_vars, search_vars>>

\* the condition of the for loop; a true condition enters the body, which calls
\* beam_search
LoopTest ==
    /\ main_pc = "loop"
    /\ IF iteration < max_iterations /\ ~exit_flag
       THEN /\ main_pc' = "search"
            /\ searches' = searches + 1
            /\ main_level' = 0
       ELSE /\ main_pc' = "finish"
            /\ UNCHANGED <<searches, main_level>>
    /\ UNCHANGED <<max_iterations, iteration, exit_flag, length, depth, exit_code,
                   reported, sigints, pure_vars, net_size, started, fault,
                   state_vars, search_vars>>

\* one level of the running search; exit_flag is not read
SearchLevel ==
    /\ main_pc = "search"
    /\ main_level < best_known_length + MaxAboveBound
    /\ main_level' = main_level + 1
    /\ UNCHANGED <<max_iterations, iteration, exit_flag, length, depth, main_pc,
                   exit_code, searches, reported, sigints, pure_vars, net_size,
                   started, fault, state_vars, search_vars>>

\* beam_search returns the level it reached; minimise_depth and get_depth
\* give the depth of the result
SearchReturns ==
    /\ main_pc = "search"
    /\ main_level >= 1
    /\ main_level >= best_known_length - 1
    /\ length' = main_level
    /\ depth' \in {d \in best_known_depth - 1 .. best_known_depth + MaxAboveBound : d >= 1}
    /\ main_pc' = "report"
    /\ UNCHANGED <<max_iterations, iteration, exit_flag, main_level, exit_code,
                   searches, reported, sigints, pure_vars, net_size, started,
                   fault, state_vars, search_vars>>

\* a variant of EndIteration whose break leaves the loop without ++iteration
EndIteration_break_uncounted ==
    /\ main_pc = "report"
    /\ reported' = reported + 1
    /\ iteration' = IF found_new_bound(length, depth) THEN iteration ELSE iteration + 1
    /\ main_pc' = IF found_new_bound(length, depth) THEN "finish" ELSE "loop"
    /\ UNCHANGED <<max_iterations, exit_flag, length, depth, main_level, exit_code,
                   searches, sigints, pure_vars, net_size, started, fault,
                   state_vars, search_vars>>

\* print_results, then the test for a new bound: break with the iteration
\* counted, or reset and go round the loop
EndIteration ==
    /\ main_pc = "report"
    /\ reported' = reported + 1
    /\ iteration' = iteration + 1
    /\ main_pc' = IF found_new_bound(length, depth) THEN "finish" ELSE "loop"
    /\ UNCHANGED <<max_iterations, exit_flag, length, depth, main_level, exit_code,
                   searches, sigints, pure_vars, net_size, started, fault,
                   state_vars, search_vars>>

\* the totals are printed and main returns 0
Finish ==
    /\ main_pc = "finish"
    /\ exit_code' = 0
    /\ main_pc' = "exited"
    /\ UNCHANGED <<max_iterations, iteration, exit_flag, length, depth, main_level,
                   searches, reported, sigints, pure_vars, net_size, started,
                   fault, state_vars, search_vars>>

\* signal_handler, run on a delivery of SIGINT at any point of main
signal_handler ==
    /\ main_pc \in {"loop", "search", "report", "finish"}
    /\ sigints' = sigints + 1
    /\ IF exit_flag
       THEN /\ exit_code' = 1
            /\ main_pc' = "exited"
            /\ UNCHANGED exit_flag
       ELSE /\ exit_flag' = TRUE
            /\ UNCHANGED <<exit_code, main_pc>>
    /\ UNCHANGED <<max_iterations, iteration, length, depth, main_level, searches,
                   reported, pure_vars, net_size, started, fault, state_vars,
                   search_vars>>

\* the steps of the main thread
MainStep == LoopTest \/ SearchLevel \/ SearchReturns \/ EndIteration \/ Finish

NextMain == MainStep \/ signal_handler

SpecMain == InitMain /\ [][NextMain]_vars

\* the main thread keeps running; signals come or do not
FairSpecMain == SpecMain /\ WF_vars(MainStep)

StoppedInIteration == exit_flag /\ sigints = 1 /\ main_pc = "search"

\* C19: once the first SIGINT has set the stop flag during an iteration, the
\* search goes on level by level whatever the flag, no further search is
\* started, and, no second SIGINT being delivered, the iteration is reported
\* and the process exits with code 0
C19_StopAfterIteration ==
    /\ [][exit_flag => searches' = searches]_vars
    /\ [][(exit_flag /\ main_pc = "search" /\ main_level' # main_level) =>
             (main_level' = main_level + 1 /\ main_pc' = "search")]_vars
    /\ [][(main_pc' = "exited" /\ main_pc # "exited" /\ sigints' = 1) =>
             (exit_code' = 0 /\ reported' = searches')]_vars
    /\ (StoppedInIteration ~>
            (main_pc = "exited" /\ (sigints = 1 => exit_code = 0 /\ reported = searches)))

\* the process has exited with code 0 after one SIGINT that came during a
\* search, with searches left to run
C19_Witness ==
    /\ main_pc = "exited"
    /\ exit_code = 0
    /\ sigints = 1
    /\ exit_flag
    /\ reported = searches
    /\ searches < max_iterations
    /\ ~found_new_bound(length, depth)


(***************************************************************************)
(* The lookup tables, read for one pattern.                                *)
(***************************************************************************)
\* largest network size whose tables are read
MaxLookupNetSize == 5

InitLookup ==
    /\ net_size \in 2 .. MaxLookupNetSize
    /\ arg_pattern \in Patterns(net_size)
    /\ arg_ops = <<>>
    /\ fn_value = <<>>
    /\ fn_pc = "drawn"
    /\ MainIdle
    /\ used_list = NewState(net_size).used_list
    /\ first_used = END_OF_LIST
    /\ num_unsorted = 0
    /\ operations = NewState(net_size).operations
    /\ current_level = 0
    /\ started = FALSE
    /\ fault = "none"
    /\ SearchIdle

\* LookupTables::is_sorted(pattern)
ReadIsSorted ==
    /\ fn_pc = "drawn"
    /\ fn_value' = [is_sorted |-> is_sorted(arg_pattern)]
    /\ fn_pc' = "sorted_read"
    /\ UNCHANGED <<arg_ops, arg_pattern, net_size, started, fault, state_vars, search_vars, main_vars>>

\* LookupTables::allowed_ops(pattern)
ReadAllowedOps ==
    /\ fn_pc = "sorted_read"
    /\ fn_value' = [is_sorted |-> fn_value.is_sorted, allowed_ops |-> allowed_ops(arg_pattern)]
    /\ fn_pc' = "applied"
    /\ UNCHANGED <<arg_ops, arg_pattern, net_size, started, fault, state_vars, search_vars, main_vars>>

NextLookup == ReadIsSorted \/ ReadAllowedOps

SpecLookup == InitLookup /\ [][NextLookup]_vars

\* the pairs (i, j), i < j, with bit i of p clear and bit j of p set
ChangingPairs(p) ==
    {c \in Comparators(net_size) : Bit(p, c[1]) = 0 /\ Bit(p, c[2]) = 1}

\* C20: for every pattern p below 2^n, is_sorted[p] holds exactly when p has no
\* 0-bit below a 1-bit, that is p = 2^a - 1 for some a in 0 .. n; allowed_ops[p]
\* lists exactly the pairs (i < j) with bit i of p clear and bit j set, each
\* once; and is_sorted[p] holds exactly when allowed_ops[p] is empty
C20_LookupTables ==
    fn_pc = "applied" =>
        /\ fn_value.is_sorted <=> (\E a \in 0 .. net_size : arg_pattern = 2 ^ a - 1)
        /\ fn_value.is_sorted <=> (ChangingPairs(arg_pattern) = {})
        /\ {<<fn_value.allowed_ops[k].op1, fn_value.allowed_ops[k].op2>> :
                k \in 1 .. Len(fn_value.allowed_ops)} = ChangingPairs(arg_pattern)
        /\ Len(fn_value.allowed_ops) = Cardinality(ChangingPairs(arg_pattern))
        /\ fn_value.is_sorted <=> (fn_value.allowed_ops = <<>>)

\* the tables were read for an unsorted pattern of the largest network with a 0
\* at wire n - 2 below a 1 at wire n - 1, the pair the last round of
\* check_sorted looks at
C20_Witness ==
    /\ fn_pc = "applied"
    /\ net_size = MaxLookupNetSize
    /\ ~fn_value.is_sorted
    /\ Len(fn_value.allowed_ops) >= 2
    /\ Bit(arg_pattern, net_size - 1) = 1
    /\ Bit(arg_pattern, net_size - 2) = 0


(***************************************************************************)
(* End-to-end runs of the engine on fixed configurations.                  *)
(***************************************************************************)
\* n = 2, max_beam = 1, one scoring test
E1Config == net_size = 2 /\ max_beam_size = 1 /\ num_scoring_iterations = 1

\* beam_search has returned 1 with the single comparator (0,1) in result, and
\* minimise_depth followed by get_depth gives depth 1
E1Result ==
    /\ SearchReturned
    /\ returned = 1
    /\ current_level = 1
    /\ operations[0] = [op1 |-> 0, op2 |-> 1]
    /\ get_depth(minimise_depth(S)) = 1

\* C21: with n = 2, max_beam = 1 and one scoring test, every run of the engine
\* returns, and what it returns is length 1, depth 1 and the single operation
\* (0,1)
C21_TwoWireRun ==
    /\ E1Config => <>E1Result
    /\ [](E1Config /\ pc = "returned" => E1Result)

\* a two-wire run with beam 1 and one test has returned
C21_Witness == E1Config /\ pc = "returned" /\ returned = 1 /\ num_unsorted = 0

(***************************************************************************)
(* update_state against the comparator on values.                          *)
(***************************************************************************)
\* the call update_state(i, j) was made inside the operations vector
Applied(i, j) == UpdateState(i, j) /\ fault' = "none"

\* the unsorted images of the live values under the comparator (i, j)
UnsortedImages(i, j) ==
    {w \in {Exchange(v, i, j) : v \in LiveValues} : ~SortedForm(w)}

\* the node at slot k is unlinked by (i, j): its value changes and the image is
\* sorted or is the value of another node
Unlinked(k, i, j) ==
    LET v == used_list[k].bit_pattern
        w == Exchange(v, i, j)
    IN w # v /\ (SortedForm(w) \/ w \in LiveValues)

\* C23: for every comparator (i < j) applied in a reachable state, the live
\* values afterwards are the images c(v) of the live values before, less the
\* sorted ones; a node whose image is sorted or already live is unlinked, every
\* other node stays at its slot recording its image, and the list has exactly one
\* node per distinct unsorted image.
C23_ApplyIsImageOfLiveSet ==
    [][\A c \in Comparators(net_size) :
          Applied(c[1], c[2]) =>
             /\ LiveValues' = UnsortedImages(c[1], c[2])
             /\ NodeSlots' = {k \in NodeSlots : ~Unlinked(k, c[1], c[2])}
             /\ \A k \in NodeSlots' :
                   used_list'[k].bit_pattern
                      = Exchange(used_list[k].bit_pattern, c[1], c[2])
             /\ Len(ListNodes') = Cardinality(UnsortedImages(c[1], c[2]))
             /\ operations'[current_level] = [op1 |-> c[1], op2 |-> c[2]]
             /\ current_level' = current_level + 1]_vars

\* a three-wire replay of two comparators: the first made two unsorted inputs
\* meet in one unsorted image, so that one of their nodes was unlinked; after the
\* second a surviving node records an image other than its slot and an input has
\* reached a sorted image
C23_Witness ==
    /\ Replayed /\ net_size = 3 /\ current_level = 2 /\ num_unsorted > 0
    /\ \E k \in NodeSlots : used_list[k].bit_pattern # k
    /\ \E p, q \in Patterns(net_size) :
          /\ p # q
          /\ p \notin NodeSlots
          /\ ~SortedForm(NetworkOutput(p, operations, 1))
          /\ NetworkOutput(p, operations, 1) = NetworkOutput(q, operations, 1)
    /\ \E p \in Patterns(net_size) :
          /\ ~SortedForm(NetworkOutput(p, operations, 1))
          /\ SortedForm(NetworkOutput(p, operations, 2))

\* the inputs that the comparators applied so far leave unsorted
UnsortedInputs ==
    {p \in Patterns(net_size) :
        ~SortedForm(NetworkOutput(p, operations, current_level))}

\* the unsorted outputs of the comparators applied so far
UnsortedOutputs ==
    {NetworkOutput(p, operations, current_level) : p \in UnsortedInputs}

\* C24 as stated: after replaying any comparator sequence O, num_unsorted is the
\* number of binary inputs p in [0, 2^n) that O takes to a non-sorted vector.
C24_CountsUnsortedInputs ==
    Replayed => num_unsorted = Cardinality(UnsortedInputs)

\* C24 amended: after replaying any comparator sequence O, num_unsorted is the
\* number of distinct non-sorted vectors among the outputs of O on the 2^n binary
\* inputs; inputs that O takes to the same vector are counted once.
C24_CountsUnsortedOutputs ==
    Replayed => num_unsorted = Cardinality(UnsortedOutputs)

\* a replay that leaves more unsorted inputs than unsorted outputs
C24_Witness ==
    /\ Replayed /\ current_level > 0
    /\ num_unsorted > 0
    /\ Cardinality(UnsortedOutputs) < Cardinality(UnsortedInputs)

Max(a, b) == IF a > b THEN a ELSE b

\* the bits of w at wires i and j are lo and hi, the other bits are those of v
PlacedAt(v, w, i, j, lo, hi) ==
    /\ Bit(w, i) = lo
    /\ Bit(w, j) = hi
    /\ \A b \in Wires(net_size) \ {i, j} : Bit(w, b) = Bit(v, b)

\* C25 as stated: apply(i,j) with i < j transforms each live pattern so that the
\* minimum of its bits at wires i and j ends at wire i and the maximum at wire j.
C25_MinToLowerWire ==
    [][\A c \in Comparators(net_size) :
          Applied(c[1], c[2]) =>
             \A k \in NodeSlots' :
                LET v == used_list[k].bit_pattern
                IN PlacedAt(v, used_list'[k].bit_pattern, c[1], c[2],
                            Min(Bit(v, c[1]), Bit(v, c[2])),
                            Max(Bit(v, c[1]), Bit(v, c[2])))]_vars

\* C25 amended: apply(i,j) with i < j transforms each live pattern so that the
\* maximum of its bits at wires i and j ends at wire i and the minimum at wire j,
\* the other bits staying as they were: a 1 standing above a 0 moves down.
C25_MaxToLowerWire ==
    [][\A c \in Comparators(net_size) :
          Applied(c[1], c[2]) =>
             \A k \in NodeSlots' :
                LET v == used_list[k].bit_pattern
                IN PlacedAt(v, used_list'[k].bit_pattern, c[1], c[2],
                            Max(Bit(v, c[1]), Bit(v, c[2])),
                            Min(Bit(v, c[1]), Bit(v, c[2])))]_vars

\* the last comparator found a 0 at its lower wire and a 1 at its upper wire in
\* the value of a node that is still listed, now with the two bits exchanged
C25_Witness ==
    /\ Replayed /\ current_level > 0
    /\ \E k \in NodeSlots :
          LET before == NetworkOutput(k, operations, current_level - 1)
              last   == operations[current_level - 1]
          IN /\ Bit(before, last.op1) = 0
             /\ Bit(before, last.op2) = 1
             /\ used_list[k].bit_pattern # before

(***************************************************************************)
(* find_successors called on the State object between its mutators.        *)
(***************************************************************************)
\* one call of find_successors(succ_ops, net_size): the matrix and the returned
\* count are kept in fn_value; the object is not written
FindSuccessors ==
    /\ fault = "none"
    /\ fn_value' = [succ_ops |-> succ_ops_matrix(S),
                    allowed  |-> count_allowed(succ_ops_matrix(S))]
    /\ fn_pc' = "applied"
    /\ UNCHANGED <<arg_ops, arg_pattern, net_size, started, fault, state_vars>>
    /\ UNCHANGED <<search_vars, main_vars>>

NextSuccessors ==
    \/ Next
    \/ FindSuccessors

SpecSuccessors == Init /\ [][NextSuccessors]_vars

\* some live value has a 0 at wire i and a 1 at wire j
ChangesLive(i, j) == \E v \in LiveValues : Bit(v, i) = 0 /\ Bit(v, j) = 1

\* C26: find_successors sets succ_ops[i][j] = 1 exactly for the pairs (i < j)
\* for which some live value has bit i = 0 and bit j = 1, every other cell being
\* 0; it returns the number of set cells; and it returns 0 if and only if
\* num_unsorted = 0.
C26_SuccessorMask ==
    [][FindSuccessors =>
         /\ \A i, j \in Wires(net_size) :
               fn_value'.succ_ops[i][j] =
                  IF i < j /\ ChangesLive(i, j) THEN 1 ELSE 0
         /\ fn_value'.allowed =
               Cardinality({c \in Wires(net_size) \X Wires(net_size) :
                              fn_value'.succ_ops[c[1]][c[2]] = 1})
         /\ (fn_value'.allowed = 0) <=> (num_unsorted = 0)]_vars

\* find_successors was called on a three-wire replay with nodes left and
\* returned a count that is neither 0 nor the number of pairs, with set cells
\* outside row 0
C26_Witness ==
    /\ Replayed /\ net_size = 3 /\ current_level > 0 /\ num_unsorted > 0
    /\ fn_pc = "applied"
    /\ fn_value.succ_ops = succ_ops_matrix(S)
    /\ fn_value.allowed = 2
    /\ fn_value.succ_ops[1][2] = 1

\* the cell succ_ops[i][j] that find_successors would set in the current state
MaskCell(i, j) == succ_ops_matrix(S)[i][j]

\* C27: update_state(i,j) changes the set of live values if and only if
\* succ_ops[i][j] = 1 in the mask of the state it is applied to; when the cell
\* is 0 the list, the in_list flags and num_unsorted stay as they are and only
\* operations and current_level change; and in the mask of the state right
\* after update_state(i,j) the cell [i][j] is 0.
C27_MaskDecidesEffect ==
    [][\A c \in Comparators(net_size) :
          Applied(c[1], c[2]) =>
             /\ (LiveValues' # LiveValues) <=> (MaskCell(c[1], c[2]) = 1)
             /\ MaskCell(c[1], c[2]) = 0 =>
                   /\ used_list' = used_list
                   /\ first_used' = first_used
                   /\ num_unsorted' = num_unsorted
                   /\ operations' = [operations EXCEPT
                                       ![current_level] = [op1 |-> c[1], op2 |-> c[2]]]
                   /\ current_level' = current_level + 1
             /\ MaskCell(c[1], c[2])' = 0]_vars

\* a three-wire replay whose second comparator repeats the first: the first
\* unlinked nodes, the second found its cell at 0 and left the list alone
C27_Witness ==
    /\ Replayed /\ net_size = 3 /\ current_level = 2
    /\ operations[1] = operations[0]
    /\ 0 < num_unsorted
    /\ num_unsorted < get_num_input_patterns(net_size) - (net_size + 1)
    /\ MaskCell(operations[1].op1, operations[1].op2) = 0

(***************************************************************************)
(* do_random_transition and the rollout loop.                              *)
(***************************************************************************)
\* the draw rand_index stops the list walk at a node, whose value is live and
\* unsorted and has a non-empty allowed_ops vector that every draw of rand_op
\* indexes
DrawInRange(rand_index) ==
    LET v == random_walk(S, first_used, 0, rand_index)
    IN /\ 0 <= rand_index /\ rand_index < num_unsorted
       /\ rand_index < Len(ListNodes)
       /\ v = used_list[ListNodes[rand_index + 1]].bit_pattern
       /\ v \in LiveValues
       /\ ~SortedForm(v)
       /\ ~is_sorted(v)
       /\ Len(allowed_ops(v)) > 0
       /\ \A rand_op \in rand_int(Len(allowed_ops(v)) - 1) :
             0 <= rand_op /\ rand_op < Len(allowed_ops(v))

walked_allowed(st, rand_index) ==
    allowed_ops(random_walk(st, st.first_used, 0, rand_index))

\* a variant of random_transitions that draws among all comparators
random_transitions_any_comparator(st) ==
    {update_state(st, c[1], c[2]) : c \in Comparators(net_size)}

\* do_random_transition on st: the states it can leave st in, over the draws of
\* rand_index and of rand_op that index an element of the vector
random_transitions(st) ==
    UNION {{update_state(st, walked_allowed(st, rand_index)[rand_op + 1].op1,
                             walked_allowed(st, rand_index)[rand_op + 1].op2) :
              rand_op \in {k \in rand_int(Len(walked_allowed(st, rand_index)) - 1) :
                             k < Len(walked_allowed(st, rand_index))}} :
           rand_index \in rand_int(st.num_unsorted - 1)}

\* some draw of rand_op in do_random_transition on st indexes past the end
random_out_of_range(st) ==
    \E rand_index \in rand_int(st.num_unsorted - 1) :
       \E rand_op \in rand_int(Len(walked_allowed(st, rand_index)) - 1) :
          rand_op >= Len(walked_allowed(st, rand_index))

\* a variant of write_temp in which temp_state names the scored object itself
write_temp_shared(this_state, new_temp) ==
    [this_state |-> new_temp, temp_state |-> new_temp]

\* temp_state is a State object of its own (copy-constructed, then
\* copy-assigned): a write to it leaves the scored object as it is
write_temp(this_state, new_temp) ==
    [this_state |-> this_state, temp_state |-> new_temp]

\* store the outcome of a write to temp_state
SetTemp(new_temp) ==
    /\ SetS(write_temp(S, new_temp).this_state)
    /\ fn_value' = [fn_value EXCEPT !.temp_state = write_temp(S, new_temp).temp_state]

ScoreCall ==
    /\ fn_pc = "idle"
    /\ started
    /\ fault = "none"
    /\ \E num_tests \in 1 .. MaxTests :
          fn_value' = [num_tests |-> num_tests, test |-> 0, temp_state |-> S,
                       total_length |-> 0, total_depth |-> 0]
    /\ fn_pc' = "for"
    /\ UNCHANGED <<arg_ops, arg_pattern, net_size, started, fault, state_vars>>
    /\ UNCHANGED <<search_vars, main_vars>>

\* for (test = 0; test < num_tests; ++test) { temp_state = *this; ...
ScoreLoopTest ==
    /\ fn_pc = "for"
    /\ IF fn_value.test < fn_value.num_tests
       THEN /\ SetTemp(S)
            /\ fn_pc' = "while"
       ELSE /\ UNCHANGED <<fn_value, state_vars>>
            /\ fn_pc' = "returned"
    /\ UNCHANGED <<arg_ops, arg_pattern, net_size, started, fault>>
    /\ UNCHANGED <<search_vars, main_vars>>

\* while (temp_state.num_unsorted > 0) temp_state.do_random_transition(lookups);
\* the store into operations is unchecked, as in ApplyStep
RolloutStep ==
    /\ fn_pc = "while"
    /\ fault = "none"
    /\ IF fn_value.temp_state.num_unsorted > 0
       THEN \/ /\ \E new_temp \in random_transitions(fn_value.temp_state) :
                     SetTemp(new_temp)
               /\ fault' = IF fn_value.temp_state.current_level < length_upper_bound
                              THEN "none" ELSE "overrun"
               /\ UNCHANGED fn_pc
            \/ /\ \/ random_out_of_range(fn_value.temp_state)
                  \/ fn_value.temp_state.current_level >= length_upper_bound
               /\ fault' = "crash"
               /\ UNCHANGED <<fn_value, fn_pc, state_vars>>
       ELSE /\ fn_pc' = "minimise"
            /\ UNCHANGED <<fn_value, fault, state_vars>>
    /\ UNCHANGED <<arg_ops, arg_pattern, net_size, started>>
    /\ UNCHANGED <<search_vars, main_vars>>

\* temp_state.minimise_depth(NetSize); length and depth are added to the sums
\* (total_score is (1 - depth_weight) * total_length + depth_weight * total_depth)
ScoreRollout ==
    /\ fn_pc = "minimise"
    /\ LET minimised == minimise_depth(fn_value.temp_state)
       IN /\ SetS(write_temp(S, minimised).this_state)
          /\ fn_value' = [fn_value EXCEPT
                            !.temp_state = write_temp(S, minimised).temp_state,
                            !.total_length = @ + minimised.current_level,
                            !.total_depth = @ + get_depth(minimised),
                            !.test = @ + 1]
    /\ fn_pc' = "for"
    /\ UNCHANGED <<arg_ops, arg_pattern, net_size, started, fault>>
    /\ UNCHANGED <<search_vars, main_vars>>

\* the caller resets the object before it scores
ResetScored == fn_pc = "idle" /\ SetStartState

\* the caller extends the object by a comparator that find_successors marked
ExtendScored ==
    /\ fn_pc = "idle"
    /\ \E c \in find_successors(S) : UpdateState(c[1], c[2])

ScoreStep ==
    \/ ScoreCall
    \/ ScoreLoopTest
    \/ RolloutStep
    \/ ScoreRollout

NextScore ==
    \/ ResetScored
    \/ ExtendScored
    \/ ScoreStep

SpecScore == Init /\ [][NextScore]_vars

\* a step that is enabled exactly when RolloutStep is: its guard, and the move
\* out of the loop
RolloutStepEnabled ==
    /\ fn_pc = "while"
    /\ fault = "none"
    /\ fn_pc' = "minimise"
    /\ UNCHANGED <<arg_ops, arg_pattern, fn_value, net_size, started, fault, state_vars>>
    /\ UNCHANGED <<search_vars, main_vars>>

\* a step that is enabled exactly when ScoreRollout is: its guard, and the move
\* back to the head of the for loop
ScoreRolloutEnabled ==
    /\ fn_pc = "minimise"
    /\ fn_pc' = "for"
    /\ UNCHANGED <<arg_ops, arg_pattern, fn_value, net_size, started, fault, state_vars>>
    /\ UNCHANGED <<search_vars, main_vars>>

\* enabled exactly when ScoreStep is
ScoreProgress ==
    \/ ScoreCall
    \/ ScoreLoopTest
    \/ RolloutStepEnabled
    \/ ScoreRolloutEnabled

\* the call is scheduled until it returns: it does not stop for ever while it
\* can take a step
FairSpecScore == SpecScore /\ WF_vars(ScoreProgress)

\* C29: from every state the program scores, the loop
\* `while (temp_state.num_unsorted > 0) temp_state.do_random_transition()`
\* terminates under every sequence of draws, and it ends with
\* temp_state.num_unsorted = 0.
C29_RolloutTerminates ==
    \A test \in 0 .. MaxTests - 1 :
       (fn_pc = "while" /\ fn_value.test = test)
          ~> (/\ fn_pc = "minimise"
              /\ fn_value.test = test
              /\ fn_value.temp_state.num_unsorted = 0
              /\ fault = "none")

\* the loop of the second test has ended on three wires after three draws,
\* started from the object as reset leaves it
C29_Witness ==
    /\ fn_pc = "minimise"
    /\ net_size = 3
    /\ fn_value.test = 1
    /\ current_level = 0
    /\ num_unsorted > 0
    /\ fn_value.temp_state.current_level = 3
    /\ fn_value.temp_state.num_unsorted = 0

ComparatorSequences(n, len) ==
    UNION {[1 .. l -> OpRecords(n)] : l \in 0 .. Min(len, get_length_upper_bound(n))}

InitMinimise ==
    /\ net_size \in 2 .. MaxDepthNetSize
    /\ arg_ops \in ComparatorSequences(net_size, MaxDepthOps)
    /\ arg_pattern = 0
    /\ fn_value = <<>>
    /\ fn_pc = "drawn"
    /\ MainIdle
    /\ used_list = NewState(net_size).used_list
    /\ first_used = END_OF_LIST
    /\ num_unsorted = 0
    /\ operations = NewState(net_size).operations
    /\ current_level = 0
    /\ started = FALSE
    /\ fault = "none"
    /\ SearchIdle

\* a variant of below_level that lets the loop run one index further
below_level_inclusive(l) == l <= current_level

\* the loop tests l1 < current_level and l2 < current_level
below_level(l) == l < current_level

\* what a step of minimise_depth leaves alone
MinimiseFrame ==
    /\ UNCHANGED <<arg_ops, arg_pattern, net_size, started>>
    /\ UNCHANGED <<used_list, first_used, num_unsorted, current_level>>
    /\ UNCHANGED <<search_vars, main_vars>>

MinimiseCall ==
    /\ fn_pc = "replayed"
    /\ fn_value' = [l1 |-> 0, l2 |-> 0, used_ops1 |-> {}, used_ops2 |-> {},
                    altered |-> FALSE, accessed |-> {}]
    /\ fn_pc' = "do"
    /\ UNCHANGED <<operations, fault>>
    /\ MinimiseFrame

\* do { altered = false; used_ops1, used_ops2 zeroed; l1 = 0
MinimiseDo ==
    /\ fn_pc = "do"
    /\ fn_value' = [fn_value EXCEPT !.altered = FALSE, !.used_ops1 = {},
                                    !.used_ops2 = {}, !.l1 = 0]
    /\ fn_pc' = "for_l1"
    /\ UNCHANGED <<operations, fault>>
    /\ MinimiseFrame

\* for (l1 ...; l1 < current_level; ...) { if (used_ops1[...] == 1 || ...)
MinimiseOuter ==
    /\ fn_pc = "for_l1"
    /\ LET l1 == fn_value.l1
       IN IF ~below_level(l1)
          THEN /\ fn_pc' = "while"
               /\ UNCHANGED fn_value
          ELSE IF is_marked(fn_value.used_ops1, operations[l1])
          THEN /\ fn_value' = [fn_value EXCEPT !.used_ops2 = {}, !.l2 = l1,
                                               !.accessed = @ \cup {l1}]
               /\ fn_pc' = "for_l2"
          ELSE /\ fn_value' = [fn_value EXCEPT
                                 !.used_ops1 = mark_used(@, operations[l1]),
                                 !.l1 = l1 + 1,
                                 !.accessed = @ \cup {l1}]
               /\ fn_pc' = "for_l1"
    /\ UNCHANGED <<operations, fault>>
    /\ MinimiseFrame

\* one round of for (l2 = l1; l2 < current_level; ++l2)
MinimiseInner ==
    /\ fn_pc = "for_l2"
    /\ LET l1 == fn_value.l1
           l2 == fn_value.l2
       IN IF ~below_level(l2)
          THEN /\ fn_pc' = "after_l2"
               /\ UNCHANGED <<fn_value, operations>>
          ELSE IF is_marked(fn_value.used_ops2, operations[l2])
          THEN /\ fn_pc' = "after_l2"
               /\ fn_value' = [fn_value EXCEPT !.accessed = @ \cup {l2}]
               /\ UNCHANGED operations
          ELSE IF ~is_marked(fn_value.used_ops1, operations[l2])
          THEN /\ operations' = swap(operations, l1, l2)
               /\ fn_value' = [fn_value EXCEPT
                                 !.used_ops1 = mark_used(@, operations[l2]),
                                 !.l2 = l1 + 1,
                                 !.l1 = l1 + 1,
                                 !.used_ops2 = {},
                                 !.altered = TRUE,
                                 !.accessed = @ \cup {l1, l2}]
               /\ fn_pc' = "for_l2"
          ELSE /\ fn_value' = [fn_value EXCEPT
                                 !.used_ops2 = mark_used(@, operations[l2]),
                                 !.l2 = l2 + 1,
                                 !.accessed = @ \cup {l2}]
               /\ fn_pc' = "for_l2"
               /\ UNCHANGED operations
    /\ UNCHANGED fault
    /\ MinimiseFrame

\* after the inner loop: used_ops1 zeroed, then operations[l1] is marked with no
\* test of l1; past the end of the vector the read is undefined
MinimiseMark ==
    /\ fn_pc = "after_l2"
    /\ LET l1 == fn_value.l1
       IN IF l1 \in DOMAIN operations
          THEN /\ fn_value' = [fn_value EXCEPT
                                 !.used_ops1 = mark_used({}, operations[l1]),
                                 !.l1 = l1 + 1,
                                 !.accessed = @ \cup {l1}]
               /\ fn_pc' = "for_l1"
               /\ UNCHANGED fault
          ELSE /\ fn_value' = [fn_value EXCEPT !.accessed = @ \cup {l1}]
               /\ \/ fault' = "crash" /\ UNCHANGED fn_pc
                  \/ fault' = "overrun" /\ fn_pc' = "for_l1"
    /\ UNCHANGED operations
    /\ MinimiseFrame

\* } while (altered);
MinimiseWhile ==
    /\ fn_pc = "while"
    /\ fn_pc' = IF fn_value.altered THEN "do" ELSE "done"
    /\ UNCHANGED <<fn_value, operations, fault>>
    /\ MinimiseFrame

MinimiseStep ==
    /\ fault = "none"
    /\ \/ MinimiseCall
       \/ MinimiseDo
       \/ MinimiseOuter
       \/ MinimiseInner
       \/ MinimiseMark
       \/ MinimiseWhile

NextMinimise ==
    \/ ReplaySequence
    \/ MinimiseStep

SpecMinimise == InitMinimise /\ [][NextMinimise]_vars

\* once called, minimise_depth runs until it returns
FairSpecMinimise == SpecMinimise /\ WF_vars(MinimiseStep)

InMinimise == fn_pc \in {"do", "for_l1", "for_l2", "after_l2", "while", "done"}

\* C31: minimise_depth terminates for every comparator sequence, so the
\* do-while loop performs finitely many swaps; and while it runs no element of
\* operations at an index at or beyond current_level is read or written.
C31_MinimiseTerminatesInBounds ==
    /\ (fn_pc = "replayed") ~> (fn_pc = "done")
    /\ [](InMinimise => /\ fault = "none"
                        /\ fn_value.accessed \subseteq 0 .. current_level - 1)

\* minimise_depth has returned from its second pass over five wires, the first
\* pass having swapped: the sequence differs from the one replayed, and its
\* last element was read
C31_Witness ==
    /\ fn_pc = "done"
    /\ net_size = 5
    /\ current_level = MaxDepthOps
    /\ ~fn_value.altered
    /\ fn_value.accessed = 0 .. current_level - 1
    /\ \E k \in 1 .. Len(arg_ops) : operations[k - 1] # arg_ops[k]

(***************************************************************************)
(* normalize_operation_order as a rearrangement.                           *)
(***************************************************************************)
\* the sequence canonical_normalize hands to normalize_operation_order
RelabelledForNormalize ==
    apply_canonical_mapping(arg_ops, compute_canonical_mapping(arg_ops, net_size))

\* how many elements of ops are the comparator op
CountOf(ops, op) == Cardinality({k \in 1 .. Len(ops) : ops[k] = op})

\* C32: the intra-layer sort step of canonical normalization outputs a
\* permutation of its input: the normalized sequence holds exactly the multiset
\* of comparators of the relabelled sequence, none dropped and none duplicated.
C32_NormalizeIsPermutation ==
    (fn_pc = "applied" /\ Len(arg_ops) > 0) =>
        /\ Len(fn_value.normal) = Len(arg_ops)
        /\ \A op \in OpRecords(net_size) :
              CountOf(fn_value.normal, op) = CountOf(RelabelledForNormalize, op)

(***************************************************************************)
(* The parallel region of beam_search.                                     *)
(***************************************************************************)
\* C33: under every interleaving of the threads in the collection loop,
\* completed_index is written at most once in a level (the first terminal entry
\* to enter the critical section wins, a later one does not overwrite it), and
\* whenever it is not -1 it is the index of a beam entry whose successor count
\* is 0.
C33_CompletionFirstWriterWins ==
    /\ [](completed_index # -1 =>
             /\ completed_index \in 0 .. current_beam_size - 1
             /\ EntryComplete(completed_index))
    /\ [][completed_index # -1 => completed_index' = completed_index]_vars

\* both entries of a two-entry beam are terminal and both were claimed before
\* either reported; entry 1 entered the critical section first and entry 0,
\* which came after it, left completed_index at 1
C33_Witness ==
    /\ pc = "collect"
    /\ current_beam_size = 2
    /\ next_iteration = 2
    /\ \A t \in Threads : thread_pc[t] = "loop"
    /\ completed_index = 1
    /\ EntryComplete(0)
    /\ EntryComplete(1)

\* every thread has left the critical section that merges its chunk
AllMerged == pc = "collect" /\ \A t \in Threads : thread_pc[t] = "merged"

\* the positions of candidates that hold a candidate of beam entry i
EntryPositions(i) == {k \in 1 .. Len(candidates) : candidates[k].beam_index = i}

\* what the iteration for beam entry i pushes
PushedBy(i) ==
    entry_candidates(i, beam[i], level,
                     find_successors(reconstruct_state(beam[i], level)))

\* the candidates of entry i stand in candidates as one block, in the order
\* they were pushed, which is ascending in (op1, op2)
OneBlock(i) ==
    LET pos == EntryPositions(i)
    IN /\ Cardinality(pos) = Len(PushedBy(i))
       /\ \A k \in pos : \A m \in pos : \A x \in k .. m : x \in pos
       /\ \A k \in pos :
             candidates[k] = PushedBy(i)[1 + Cardinality({m \in pos : m < k})]
       /\ \A k \in pos : \A m \in pos : k < m => op_less(candidates[k], candidates[m])

\* C34: under every interleaving of the threads, at a level with no terminal
\* entry the list candidates that deduplication starts from holds the candidates
\* of every beam entry exactly once, those of one entry contiguously and in
\* ascending (op1, op2) order; and deduplication starts only after every thread
\* has merged its local_candidates.
C34_MergeKeepsEveryCandidate ==
    /\ []((AllMerged /\ completed_index = -1) =>
             /\ \A k \in 1 .. Len(candidates) :
                   candidates[k].beam_index \in 0 .. current_beam_size - 1
             /\ \A i \in 0 .. current_beam_size - 1 : OneBlock(i))
    /\ [][Deduplicate => AllMerged]_vars

\* both threads have merged at a level of a two-entry beam without a terminal
\* entry; each thread had expanded one entry, and the chunk with the candidates
\* of entry 1 was merged first
C34_Witness ==
    /\ AllMerged
    /\ completed_index = -1
    /\ current_beam_size = 2
    /\ \A t \in Threads : Len(local_candidates[t]) > 0
    /\ Len(candidates) > 2
    /\ candidates[1].beam_index = 1
    /\ candidates[Len(candidates)].beam_index = 0

(***************************************************************************)
(* C35: the shape of the beam.  At every level L each beam entry i below   *)
(* the beam width holds L comparators with op1 < op2 < net_size, each of   *)
(* them a valid successor of the state its predecessors leave, and the     *)
(* step that builds level L + 1 makes every entry a copy of an entry of    *)
(* the beam of level L followed by one comparator that find_successors     *)
(* reported (M = 1) for that parent; no other step touches the entries.    *)
(***************************************************************************)
\* cell j of the row is a comparator that find_successors reports for the
\* state the cells before it leave
UsefulCell(row, j) ==
    /\ row[j].op1 < row[j].op2
    /\ row[j].op2 < net_size
    /\ <<row[j].op1, row[j].op2>> \in find_successors(reconstruct_state(row, j))

\* entry i of the new beam is entry parent of the old beam with one valid
\* successor appended
ExtendsParent(i, parent) ==
    /\ \A j \in 0 .. level - 1 : beam'[i][j] = beam[parent][j]
    /\ UsefulCell(beam'[i], level)

C35_BeamEntriesExtendParents ==
    /\ [](pc = "level" =>
            \A i \in 0 .. current_beam_size - 1 : \A j \in 0 .. level - 1 :
                UsefulCell(beam[i], j))
    /\ [][pc # "reconstruct" =>
            /\ level' = level
            /\ current_beam_size' = current_beam_size
            /\ \A i \in 0 .. current_beam_size - 1 : \A j \in 0 .. level - 1 :
                beam'[i][j] = beam[i][j]]_vars
    /\ [][(pc = "reconstruct" /\ pc' = "level") =>
            /\ level' = level + 1
            /\ \A i \in 0 .. current_beam_size' - 1 :
                \E parent \in 0 .. current_beam_size - 1 : ExtendsParent(i, parent)]_vars

\* a beam of two entries with three comparators each, grown from different
\* parents
C35_Witness ==
    /\ pc = "level"
    /\ level = 3
    /\ current_beam_size = 2
    /\ \E j \in 0 .. 1 : beam[0][j] # beam[1][j]

(***************************************************************************)
(* Successive halving with its scores (src/search.h:300-386): the rounds   *)
(* of the while loop in two steps, the scoring loop and the sort with the  *)
(* selection.  fn_value holds the vector scores, for the active cand_idx    *)
(* (the cells of the candidates dropped earlier are never read again).      *)
(***************************************************************************)
\* a round gives every active candidate a score in 0 .. MaxScore
MaxScore == 1

\* what the rounds leave alone
HalvingFrame ==
    UNCHANGED <<main_vars, arg_ops, arg_pattern, net_size, state_vars, started, fault,
                max_beam_size, use_symmetry, num_scoring_iterations, beam, temp_beam,
                candidates, current_beam_size, level, completed_index, next_iteration,
                thread_pc, thread_i, local_candidates, returned>>

\* the scoring loop of one round: scores[cand_idx] = score for every active
\* cand_idx, over every outcome of score_state
ScoreRound ==
    /\ pc = "halving"
    /\ fn_pc = "idle"
    /\ Cardinality(active_indices) > max_beam_size
    /\ fn_value' \in [active_indices -> 0 .. MaxScore]
    /\ fn_pc' = "scored"
    /\ score_tests_run' =
          score_tests_run + tests_per_candidate * Cardinality(active_indices)
    /\ UNCHANGED <<active_indices, tests_per_candidate, beam_successors, pc>>
    /\ HalvingFrame

\* the sort, and either the resize to the better half with the doubling of
\* the tests, or the break
SortAndHalve ==
    /\ pc = "halving"
    /\ fn_pc = "scored"
    /\ LET new_size == Cardinality(active_indices) \div 2
       IN IF new_size < max_beam_size
          THEN /\ fn_pc' = "sorted"
               /\ UNCHANGED <<active_indices, tests_per_candidate>>
          ELSE /\ active_indices' \in sort_by_score_sets(active_indices, fn_value, new_size)
               /\ tests_per_candidate' = tests_per_candidate * 2
               /\ fn_pc' = IF new_size > max_beam_size THEN "idle" ELSE "sorted"
    /\ UNCHANGED <<fn_value, score_tests_run, beam_successors, pc>>
    /\ HalvingFrame

\* after the loop: the first final_size entries of active_indices go to
\* beam_successors, and the block of the halving is left
SelectFinal ==
    /\ pc = "halving"
    /\ fn_pc = "sorted"
    /\ \E order \in sort_by_score(active_indices, fn_value,
                                   Min(Cardinality(active_indices), max_beam_size)) :
          beam_successors' = copy_candidates_to_successors(candidates, order)
    /\ active_indices' = {}
    /\ tests_per_candidate' = 0
    /\ fn_value' = <<>>
    /\ fn_pc' = "idle"
    /\ pc' = "reconstruct"
    /\ UNCHANGED score_tests_run
    /\ HalvingFrame

\* beam_search with the rounds of successive halving taken in these steps
NextHalving ==
    \/ BeginLevel
    \/ \E t \in Threads : ClaimIteration(t)
    \/ \E t \in Threads : ExpandEntry(t)
    \/ \E t \in Threads : MergeCandidates(t)
    \/ Deduplicate
    \/ ReturnCompleted
    \/ CopyAllCandidates
    \/ StartHalving
    \/ ScoreRound
    \/ SortAndHalve
    \/ SelectFinal
    \/ Reconstruct

SpecHalving == InitSearch /\ [][NextHalving]_vars

(***************************************************************************)
(* C36: successive halving.  A round that halves keeps                     *)
(* floor(|active| / 2) of the active candidates, none of them scored        *)
(* higher in that round than a candidate it drops; the active set never     *)
(* falls below max_beam_size (a round whose half would is left alone); and  *)
(* the next beam is made of max_beam_size candidates of the last round      *)
(* scored, none of them scored higher in it than a candidate left out.      *)
(***************************************************************************)
\* no candidate of kept has a higher score than one of pool outside kept
LowestScored(kept, pool, sc) ==
    \A a \in kept : \A c \in pool \ kept : sc[a] <= sc[c]

\* the cand_idx whose candidate is in the new beam_successors
Selected ==
    {c \in DOMAIN fn_value :
        \E k \in 1 .. Len(beam_successors') :
            /\ beam_successors'[k].beam_index = candidates[c + 1].beam_index
            /\ beam_successors'[k].operation.op1 = candidates[c + 1].op1
            /\ beam_successors'[k].operation.op2 = candidates[c + 1].op2}

C36_HalvingKeepsLowestHalf ==
    /\ [](pc = "halving" => Cardinality(active_indices) >= max_beam_size)
    /\ [][(pc = "halving" /\ fn_pc = "scored") =>
            LET half == Cardinality(active_indices) \div 2
            IN  IF half >= max_beam_size
                THEN /\ active_indices' \subseteq active_indices
                     /\ Cardinality(active_indices') = half
                     /\ LowestScored(active_indices', active_indices, fn_value)
                ELSE active_indices' = active_indices]_vars
    /\ [][(pc = "halving" /\ fn_pc = "sorted") =>
            /\ Len(beam_successors') = max_beam_size
            /\ Cardinality(Selected) = max_beam_size
            /\ LowestScored(Selected, DOMAIN fn_value, fn_value)]_vars

\* a second round is over, with scores that tell the candidates apart
C36_Witness ==
    /\ pc = "halving"
    /\ fn_pc = "sorted"
    /\ Cardinality(DOMAIN fn_value) < Len(candidates)
    /\ \E a, c \in DOMAIN fn_value : fn_value[a] < fn_value[c]

(***************************************************************************)
(* C37: the total that main prints.  Whenever main is at, or has run, the  *)
(* statement that prints "Total Iterations", the counter iteration equals   *)
(* the number of calls of beam_search: after the iteration limit, after    *)
(* the break on an improved bound, and after a stop flag, which gives 0     *)
(* when the flag was set before the first iteration.                        *)
(***************************************************************************)
\* main is at the print of the totals, or has returned after it
TotalsPrinted ==
    \/ main_pc = "finish"
    \/ main_pc = "exited" /\ exit_code = 0

C37_TotalCountsSearches ==
    /\ TotalsPrinted => iteration = searches
    /\ (TotalsPrinted /\ searches = 0) => exit_flag
    /\ TotalsPrinted =>
          \/ iteration = max_iterations
          \/ exit_flag
          \/ found_new_bound(length, depth)

\* the stop flag ended the loop after some searches, below the limit and
\* without a new bound
C37_Witness ==
    /\ main_pc = "exited"
    /\ exit_code = 0
    /\ exit_flag
    /\ iteration > 0
    /\ iteration < max_iterations
    /\ ~found_new_bound(length, depth)

(***************************************************************************)
(* The width of the list indices (src/state.h:23-33, 103-115): one turn of *)
(* the loop of set_start_state for a pattern i of a net of up to            *)
(* MAX_NET_SIZE wires.  i is a std::size_t below 2^net_size; it is passed   *)
(* to is_sorted(int) and stored into the int first_used, and the next turn  *)
(* copies first_used into used_list[i].next.  A pattern is given by the set *)
(* of its 1 bits, so that 32-bit values are computed without overflow.      *)
(***************************************************************************)
MAX_NET_SIZE == 32
\* the patterns drawn have at most MaxOnes bits set
MaxOnes == 2

\* the sets of at most k wires
RECURSIVE BitSets(_, _)
BitSets(n, k) ==
    IF k = 0 THEN {{}}
    ELSE LET fewer == BitSets(n, k - 1)
         IN  fewer \cup {s \cup {w} : s \in fewer, w \in Wires(n)}

\* the value of the bits below bit 31
RECURSIVE low_value(_)
low_value(bits) ==
    IF bits = {} THEN 0
    ELSE LET b == CHOOSE x \in bits : TRUE
         IN  2 ^ b + low_value(bits \ {b})

\* static_cast<int>(i), and the implicit conversion of i to int: the 32-bit
\* two's complement reading of the bits
static_cast_int(bits) ==
    IF 31 \in bits
    THEN (low_value(bits \ {31}) - 2 ^ 30) - 2 ^ 30
    ELSE low_value(bits)

\* check_sorted(static_cast<int>(v), n) for the int with these bits: the
\* conversion keeps the 32 bits, and (v >> i) & 1 reads bit i
check_sorted_bits(bits, n) ==
    \A i \in 0 .. n - 2 : ~(i \notin bits /\ (i + 1) \in bits)

InitIndex ==
    /\ net_size \in 2 .. MAX_NET_SIZE
    /\ arg_pattern \in BitSets(net_size, MaxOnes)
    /\ arg_ops = <<>>
    /\ fn_value = <<>>
    /\ fn_pc = "drawn"
    /\ MainIdle
    /\ used_list = <<>>
    /\ first_used = END_OF_LIST
    /\ num_unsorted = 0
    /\ operations = <<>>
    /\ current_level = 0
    /\ started = FALSE
    /\ fault = "none"
    /\ SearchIdle

\* if (lookups.is_sorted(i)) ... else { ...; first_used = i; }.  A negative
\* argument makes is_sorted read outside is_sorted_: the read faults, or it
\* yields some byte
StartStateTurn ==
    /\ fn_pc = "drawn"
    /\ LET pattern == static_cast_int(arg_pattern)
       IN  /\ fn_value' = [is_sorted_arg |-> pattern]
           /\ IF pattern < 0
              THEN \/ /\ fault' = "crash"
                      /\ UNCHANGED first_used
                   \/ /\ fault' = "overrun"
                      /\ first_used' \in {first_used, pattern}
              ELSE /\ first_used' = IF check_sorted_bits(arg_pattern, net_size)
                                   THEN first_used ELSE pattern
                   /\ UNCHANGED fault
    /\ fn_pc' = "applied"
    /\ UNCHANGED <<arg_ops, arg_pattern, net_size, started, used_list, num_unsorted,
                   operations, current_level, search_vars, main_vars>>

NextIndex == StartStateTurn

SpecIndex == InitIndex /\ [][NextIndex]_vars

(***************************************************************************)
(* C39: for every net size in 2 .. 32 the pattern passed to is_sorted(int)  *)
(* and the index stored into first_used (and from there into next) keep     *)
(* their value: the argument is not negative, the read stays in the table,  *)
(* and the only negative index is END_OF_LIST.                              *)
(***************************************************************************)
C39_IndicesDoNotWrap ==
    fn_pc = "applied" =>
        /\ fn_value.is_sorted_arg >= 0
        /\ fault = "none"
        /\ first_used >= 0 \/ first_used = END_OF_LIST

(***************************************************************************)
(* beam_search called again on a context that a search has used            *)
(* (src/search.h:131-141): the buffers have the configured sizes, so       *)
(* resize is not called and beam, temp_beam, candidates and                 *)
(* beam_successors keep what the first call left.  The caller hands a new   *)
(* result object; iteration counts the calls made on the used context.      *)
(***************************************************************************)
\* largest net size of a reused context
MaxReuseNetSize == 4
\* largest net size of a reused context of more than one beam entry
MaxReuseWideNetSize == 3

InitReuse ==
    /\ InitSearch
    /\ net_size <= MaxReuseNetSize
    /\ net_size > MaxReuseWideNetSize => max_beam_size = 1
    /\ num_scoring_iterations = 1

\* the entry of the second call: the test of the sizes, current_beam_size = 1
\* and level = 0
CallAgain ==
    /\ pc = "returned"
    /\ fault = "none"
    /\ iteration = 0
    /\ iteration' = 1
    /\ IF Cardinality(DOMAIN beam) # max_beam_size
          \/ (Cardinality(DOMAIN beam) > 0 /\ Cardinality(DOMAIN beam[0]) # max_ops)
       THEN /\ beam' = NewBeam(net_size, max_beam_size)
            /\ temp_beam' = NewBeam(net_size, max_beam_size)
       ELSE UNCHANGED <<beam, temp_beam>>
    /\ current_beam_size' = 1
    /\ level' = 0
    /\ SetS(NewState(net_size))
    /\ started' = FALSE
    /\ returned' = -1
    /\ pc' = "level"
    /\ UNCHANGED <<max_iterations, exit_flag, length, depth, main_level, main_pc,
                   exit_code, searches, reported, sigints, pure_vars, net_size, fault,
                   max_beam_size, use_symmetry, num_scoring_iterations,
                   beam_successors, candidates, completed_index, active_indices,
                   tests_per_candidate, score_tests_run, next_iteration, thread_pc,
                   thread_i, local_candidates>>

NextReuse == NextSearch \/ CallAgain

SpecReuse == InitReuse /\ [][NextReuse]_vars

(***************************************************************************)
(* C38: a call of beam_search on a used context.  It starts with width 1   *)
(* at level 0; every row it reads is below the current width, and what it  *)
(* computes from a row is what it computes from the row with the cells at   *)
(* and past the current level blanked; the step to the next level fills    *)
(* every cell below the new level of every row below the new width from    *)
(* such cells and the chosen comparators.  So the cells the first call      *)
(* left, which it has not overwritten, have no part in what it does.        *)
(***************************************************************************)
\* the row with the cells from len on blanked
CleanRow(row, len) ==
    [j \in DOMAIN row |-> IF j < len THEN row[j] ELSE [op1 |-> 0, op2 |-> 0]]

\* the reads of the parallel region, of the return and of the scoring
ReadsBelowLevel ==
    /\ \A t \in Threads : thread_pc[t] = "work" =>
          LET i == thread_i[t]
              clean == CleanRow(beam[i], level)
              succ_ops == find_successors(reconstruct_state(beam[i], level))
          IN  /\ i < current_beam_size
              /\ reconstruct_state(beam[i], level) = reconstruct_state(clean, level)
              /\ entry_candidates(i, beam[i], level, succ_ops)
                    = entry_candidates(i, clean, level, succ_ops)
    /\ (pc = "check" /\ completed_index # -1) =>
          /\ completed_index < current_beam_size
          /\ replay_from(set_start_state(S), beam[completed_index], 0, level)
                = replay_from(set_start_state(S),
                              CleanRow(beam[completed_index], level), 0, level)
    /\ pc \in {"check", "halving"} =>
          \A k \in 1 .. Len(candidates) : candidates[k].beam_index < current_beam_size
    /\ pc = "reconstruct" =>
          \A k \in 1 .. Len(beam_successors) :
              beam_successors[k].beam_index < current_beam_size

\* the cells below the new level come from cells below the old one and from
\* beam_successors
RegionRewritten ==
    \A i \in 0 .. current_beam_size' - 1 : \A j \in 0 .. level' - 1 :
        beam'[i][j] =
            IF j < level
            THEN CleanRow(beam[beam_successors[i + 1].beam_index], level)[j]
            ELSE beam_successors[i + 1].operation

C38_ReusedContextStartsClean ==
    /\ [](iteration = 1 => ReadsBelowLevel)
    /\ [][(iteration = 0 /\ iteration' = 1) =>
            /\ current_beam_size' = 1
            /\ level' = 0
            /\ pc' = "level"]_vars
    /\ [][(iteration = 1 /\ pc = "reconstruct" /\ pc' = "level") =>
            /\ level' = level + 1
            /\ RegionRewritten]_vars

\* the second call is expanding its entries at level 1 while the row it reads
\* still holds, past that level, a comparator of the first call
C38_Witness ==
    /\ iteration = 1
    /\ level = 1
    /\ \E t \in Threads :
          /\ thread_pc[t] = "work"
          /\ \E j \in DOMAIN beam[thread_i[t]] :
                /\ j >= level
                /\ beam[thread_i[t]][j].op1 # beam[thread_i[t]][j].op2

====
